---- MODULE Spec2Model ----
(***************************************************************************)
(* A model of mangaconv: the conversion pipeline of Converter              *)
(* (reader -> decode workers -> convert workers -> zip writer, tied        *)
(* together by three nested errgroups), the reader selection, the          *)
(* ImagePool and the cacheScaler.                                          *)
(***************************************************************************)
EXTENDS Integers, Sequences, FiniteSets, TLC

VARIABLES
    run,      \* per call of ConvertToWriter: the state of its goroutines
    params,   \* Converter.params (the bounding box)
    cache,    \* ImagePool.cache: pixLen -> pool
    pools,    \* the sync.Pools ever created: their key and free list
    bufs,     \* the pixel slices ever allocated: length and contents
    zcache,   \* cacheScaler.cache: cacheKey -> Scaler
    scalers,  \* the kernelScalers ever built by NewScaler: their key
    zmu,      \* cacheScaler.mu: the caller holding it, or 0
    zcall,    \* the goroutines calling cacheScaler.Scale directly
    zused,    \* the (key, Scaler) pairs whose Scaler.Scale has run
    pmu,      \* ImagePool.mu: the caller holding it, or 0
    pcall,    \* the goroutines calling ImagePool.Get and Put directly
    call      \* a call of a function of package imgutil: its locals

vars == <<run, params, cache, pools, bufs, zcache, scalers, zmu, zcall, zused,
          pmu, pcall, call>>

\* The direct callers of the cacheScaler, of the ImagePool and of imgutil.
callers == <<zmu, zcall, zused, pmu, pcall, call>>

shared == <<params, cache, pools, bufs, zcache, scalers, callers>>

\* The Converter, its runs and its direct callers.
converter == <<run, params, cache, pools, bufs, zcache, scalers, zmu, zcall, zused,
               pmu, pcall>>

-----------------------------------------------------------------------------
(* Bounds *)

\* The largest runtime.NumCPU(): the number of decode workers and of convert
\* workers of a run.
MaxCPU == 2

\* The largest number of entries of an input archive or directory.
MaxEntries == 3

\* The largest sum of the number of CPUs and the number of entries of a run.
MaxLoad == 4

\* The calls of ConvertToWriter on the one Converter.
Runs == {"a", "b"}

\* The size (width, height) the image of the entry at position pos decodes to:
\* images of two sizes alternate in an input.
ImageSize(pos) == IF pos % 2 = 1 THEN <<4, 2>> ELSE <<2, 1>>

\* The bounding boxes (Params.Width, Params.Height) of the Converter.
Boxes == {<<2, 2>>}

\* File names of the entries of an input.
EntryNames ==
    { <<"p", ".", "p", "n", "g">>, <<"p", ".", "j", "p", "g">>,
      <<"p", ".", "w", "e", "b", "p">>, <<"p", ".", "t", "x", "t">>,
      <<"p", "n", "g">> }

-----------------------------------------------------------------------------
(* Errors.  "nil" is the nil error. *)

ErrUnsupportedFormat == "unsupported format"
ErrCannotReadPath == "cannot read path"
ErrCanceled == "context canceled"
ErrOpen == "cannot open"
ErrWalk == "cannot walk"
ErrDecode == "cannot decode image"
ErrWrite == "zip write"
ErrEncode == "cannot encode"

\* The errors a stage returns because it failed itself.
StageErrors == {ErrOpen, ErrWalk, ErrDecode, ErrWrite, ErrEncode}

\* An errgroup that keeps the last error returned.
RecordErr_Last(g, e) == IF e # "nil" THEN e ELSE g

\* errgroup.Group.Go: the first non-nil error returned is kept (errOnce).
RecordErr(g, e) == IF g = "nil" THEN e ELSE g

\* A stage of the run fails with err.
Fail(rec, err) == [rec EXCEPT !.failed = @ \cup {err}]

\* A Close that is forgotten.
Close_Forgotten(files, pos, who) == files

\* f.Close() by who.
Close(files, pos, who) == [files EXCEPT ![pos] = Append(@, who)]

\* i++ after the raw page was sent.
nextIndex(i) == i + 1

-----------------------------------------------------------------------------
(* float64: the finite values the code computes, with their rounding.       *)
(* A value is (-1)^neg * m * 2^e, where the natural number m is a sequence  *)
(* of 13-bit limbs, the least significant first, and has 53 bits (or is     *)
(* zero: no limb).                                                          *)

LimbBits == 13

Limb == 2^LimbBits

Mantissa == 53

\* The limbs of a natural number without its leading zero limbs.
RECURSIVE Trim(_)
Trim(m) == IF m # <<>> /\ m[Len(m)] = 0 THEN Trim(SubSeq(m, 1, Len(m) - 1)) ELSE m

\* The limbs of a small natural number.
RECURSIVE Nat2Limbs(_)
Nat2Limbs(n) == IF n = 0 THEN <<>> ELSE <<n % Limb>> \o Nat2Limbs(n \div Limb)

\* The small natural number of some limbs.
RECURSIVE Limbs2Nat(_)
Limbs2Nat(m) == IF m = <<>> THEN 0 ELSE m[1] + Limb * Limbs2Nat(Tail(m))

LimbAt(m, i) == IF i \in 1..Len(m) THEN m[i] ELSE 0

\* The number of bits of a limb.
RECURSIVE Width(_)
Width(x) == IF x = 0 THEN 0 ELSE 1 + Width(x \div 2)

BitLen(m) == IF m = <<>> THEN 0 ELSE LimbBits * (Len(m) - 1) + Width(m[Len(m)])

\* Bit k of m, the least significant being bit 0.
BitAt(m, k) == (LimbAt(m, k \div LimbBits + 1) \div 2^(k % LimbBits)) % 2

\* The bits of m below bit k are all zero.
LowZero(m, k) ==
    /\ \A i \in 1..(k \div LimbBits) : LimbAt(m, i) = 0
    /\ LimbAt(m, k \div LimbBits + 1) % 2^(k % LimbBits) = 0

\* m * 2^k
ShiftLeft(m, k) ==
    LET a == k \div LimbBits
        b == k % LimbBits
    IN  Trim([i \in 1..(Len(m) + a + 1) |->
                IF i <= a THEN 0
                ELSE ((LimbAt(m, i - a) * 2^b) % Limb)
                     + (LimbAt(m, i - a - 1) \div 2^(LimbBits - b))])

\* m \div 2^k
ShiftRight(m, k) ==
    LET a == k \div LimbBits
        b == k % LimbBits
    IN  Trim([i \in 1..Len(m) |->
                (LimbAt(m, i + a) \div 2^b)
                + ((LimbAt(m, i + a + 1) % 2^b) * 2^(LimbBits - b))])

\* m + n, with carry c, from limb i on.
RECURSIVE AddFrom(_, _, _, _)
AddFrom(m, n, i, c) ==
    IF i > Len(m) /\ i > Len(n)
    THEN (IF c = 0 THEN <<>> ELSE <<c>>)
    ELSE <<(LimbAt(m, i) + LimbAt(n, i) + c) % Limb>>
         \o AddFrom(m, n, i + 1, (LimbAt(m, i) + LimbAt(n, i) + c) \div Limb)

AddLimbs(m, n) == AddFrom(m, n, 1, 0)

\* m - n for m >= n, with borrow c, from limb i on.
RECURSIVE SubFrom(_, _, _, _)
SubFrom(m, n, i, c) ==
    IF i > Len(m)
    THEN <<>>
    ELSE <<(LimbAt(m, i) - LimbAt(n, i) - c + Limb) % Limb>>
         \o SubFrom(m, n, i + 1, IF LimbAt(m, i) - LimbAt(n, i) - c < 0 THEN 1 ELSE 0)

SubLimbs(m, n) == Trim(SubFrom(m, n, 1, 0))

\* m < n
RECURSIVE LessFrom(_, _, _)
LessFrom(m, n, i) ==
    IF i = 0 THEN FALSE
    ELSE IF LimbAt(m, i) # LimbAt(n, i) THEN LimbAt(m, i) < LimbAt(n, i)
    ELSE LessFrom(m, n, i - 1)

LessLimbs(m, n) ==
    IF Len(m) # Len(n) THEN Len(m) < Len(n) ELSE LessFrom(m, n, Len(m))

\* m * k for a small k, with carry c, from limb i on.
RECURSIVE MulFrom(_, _, _, _)
MulFrom(m, k, i, c) ==
    IF i > Len(m)
    THEN Nat2Limbs(c)
    ELSE <<(m[i] * k + c) % Limb>> \o MulFrom(m, k, i + 1, (m[i] * k + c) \div Limb)

MulLimbs(m, k) == Trim(MulFrom(m, k, 1, 0))

\* The float64 zero.
ZeroF == [neg |-> FALSE, m |-> <<>>, e |-> 0]

\* The float64 nearest to (-1)^neg * m * 2^e, plus a nonzero part below the
\* last bit of m when sticky holds: round to nearest, ties to even.
Rounded(neg, m, e, sticky) ==
    LET n == BitLen(m)
        d == n - Mantissa
        kept == ShiftRight(m, d)
        up == /\ BitAt(m, d - 1) = 1
              /\ (sticky \/ ~LowZero(m, d - 1) \/ BitAt(m, d) = 1)
        r == IF up THEN AddLimbs(kept, <<1>>) ELSE kept
    IN  IF n = 0 THEN ZeroF
        ELSE IF n <= Mantissa
        THEN [neg |-> neg, m |-> ShiftLeft(m, Mantissa - n), e |-> e - (Mantissa - n)]
        ELSE IF BitLen(r) > Mantissa
        THEN [neg |-> neg, m |-> ShiftRight(r, 1), e |-> e + d + 1]
        ELSE [neg |-> neg, m |-> r, e |-> e + d]

\* The same, of the value of m.
RoundF(neg, m, e, sticky) == CHOOSE v \in { Rounded(neg, n, e, sticky) : n \in {m} } : TRUE

Abs(n) == IF n < 0 THEN 0 - n ELSE n

\* float64(n) of an int n.
Float(n) == RoundF(n < 0, Nat2Limbs(Abs(n)), 0, FALSE)

\* The limbs of the fraction r/d, the most significant first, and what is left.
RECURSIVE QuoLimbs(_, _, _)
QuoLimbs(r, d, k) ==
    IF k = 0 THEN <<>>
    ELSE <<(r * Limb) \div d>> \o QuoLimbs((r * Limb) % d, d, k - 1)

RECURSIVE QuoRest(_, _, _)
QuoRest(r, d, k) == IF k = 0 THEN r ELSE QuoRest((r * Limb) % d, d, k - 1)

\* The limbs computed of a quotient: enough for 53 bits and the rounding.
QuoPrecision == 6

\* float64(n) / float64(d) for ints n and d # 0.
DivF(n, d) ==
    LET q == QuoLimbs(Abs(n) % Abs(d), Abs(d), QuoPrecision)
        m == [i \in 1..QuoPrecision |-> q[QuoPrecision + 1 - i]]
                \o Nat2Limbs(Abs(n) \div Abs(d))
    IN  RoundF((n < 0) # (d < 0), Trim(m), 0 - LimbBits * QuoPrecision,
               QuoRest(Abs(n) % Abs(d), Abs(d), QuoPrecision) # 0)

\* f * float64(k) for an int k.
MulF(f, k) ==
    CHOOSE v \in { RoundF(a.neg # (k < 0), MulLimbs(a.m, Abs(k)), a.e, FALSE) : a \in {f} } : TRUE

NegF(f) == CHOOSE v \in { IF a.m = <<>> THEN a ELSE [a EXCEPT !.neg = ~a.neg] : a \in {f} } : TRUE

\* The sum of two float64 values.
Sum(f, g) ==
    LET e == IF f.e < g.e THEN f.e ELSE g.e
        mf == ShiftLeft(f.m, f.e - e)
        mg == ShiftLeft(g.m, g.e - e)
    IN  IF f.m = <<>> THEN g
        ELSE IF g.m = <<>> THEN f
        ELSE IF f.neg = g.neg THEN RoundF(f.neg, AddLimbs(mf, mg), e, FALSE)
        ELSE IF LessLimbs(mf, mg) THEN RoundF(g.neg, SubLimbs(mg, mf), e, FALSE)
        ELSE RoundF(f.neg, SubLimbs(mf, mg), e, FALSE)

\* f + g
AddF(f, g) == CHOOSE v \in { Sum(a, b) : a \in {f}, b \in {g} } : TRUE

\* f < g
LessF(f, g) == AddF(f, NegF(g)).neg

\* math.Min(f, g)
MinF(f, g) == IF LessF(g, f) THEN g ELSE f

\* The limbs of the natural number |f| without its fraction.
Whole(f) == IF f.e >= 0 THEN ShiftLeft(f.m, f.e) ELSE ShiftRight(f.m, 0 - f.e)

\* int(f): the fraction is dropped.
IntF(f) ==
    CHOOSE v \in { IF a.neg THEN 0 - Limbs2Nat(Whole(a)) ELSE Limbs2Nat(Whole(a)) :
                    a \in {f} } : TRUE

\* int(math.Round(f)): to the nearest integer, halves away from zero.
RoundInt(f) ==
    LET half == IF f.e < 0 THEN BitAt(f.m, 0 - f.e - 1) ELSE 0
    IN  IF f.neg THEN IntF(f) - half ELSE IntF(f) + half

\* clamp(f): int(f + 0.5), held within 0..255.
clamp(f) ==
    LET v == IntF(AddF(f, DivF(1, 2)))
    IN  IF v > 255 THEN 255 ELSE IF v > 0 THEN v ELSE 0

-----------------------------------------------------------------------------
(* Pure functions *)

\* filepath.Ext: the suffix beginning at the final dot in the final element.
Ext(path) ==
    LET n == Len(path)
        dots == {i \in 1..n : path[i] = "." /\ \A j \in i..n : path[j] # "/"}
    IN  IF dots = {} THEN <<>>
        ELSE SubSeq(path, CHOOSE d \in dots : \A e \in dots : e <= d, n)

\* An isImage that does not know of webp.
isImage_NoWebp(fname) ==
    Ext(fname) \in { <<".", "p", "n", "g">>, <<".", "j", "p", "g">> }

isImage(fname) ==
    Ext(fname) \in { <<".", "p", "n", "g">>, <<".", "j", "p", "g">>,
                     <<".", "w", "e", "b", "p">> }

\* A selectReader that does not ask whether the path is a directory.
selectReader_NoDirCheck(path, stat) ==
    IF ~stat.exists THEN [reader |-> "none", err |-> ErrCannotReadPath]
    ELSE IF Ext(path) = <<>>
         THEN [reader |-> "readDir", err |-> "nil"]
    ELSE IF Ext(path) \in {<<".", "z", "i", "p">>, <<".", "c", "b", "z">>}
         THEN [reader |-> "readZip", err |-> "nil"]
    ELSE [reader |-> "none", err |-> ErrUnsupportedFormat]

\* selectReader(path), given what os.Stat says of the path.
selectReader(path, stat) ==
    IF ~stat.exists THEN [reader |-> "none", err |-> ErrCannotReadPath]
    ELSE IF Ext(path) = <<>> /\ stat.isDir
         THEN [reader |-> "readDir", err |-> "nil"]
    ELSE IF Ext(path) \in {<<".", "z", "i", "p">>, <<".", "c", "b", "z">>}
         THEN [reader |-> "readZip", err |-> "nil"]
    ELSE [reader |-> "none", err |-> ErrUnsupportedFormat]

\* The decimal digits of n, least significant last, padded to width w.
DigitChar(d) == <<"0", "1", "2", "3", "4", "5", "6", "7", "8", "9">>[d + 1]

RECURSIVE Digits(_, _)
Digits(n, w) ==
    IF w <= 1 /\ n < 10 THEN <<DigitChar(n)>>
    ELSE Append(Digits(n \div 10, w - 1), DigitChar(n % 10))

\* fmt.Sprintf("%d.jpg", index): no padding.
EntryName_Unpadded(index) == Digits(index, 1) \o <<".", "j", "p", "g">>

\* fmt.Sprintf("%09d.jpg", index)
EntryName(index) == Digits(index, 9) \o <<".", "j", "p", "g">>

\* scale := math.Min(float64(x)/width, float64(y)/height)
FitScale_Max(w, h, x, y) ==
    IF LessF(DivF(x, w), DivF(y, h)) THEN DivF(y, h) ELSE DivF(x, w)

FitScale(w, h, x, y) == MinF(DivF(x, w), DivF(y, h))

\* imgutil.FitRect(rect, x, y) for a rect of w by h pixels, w > 0 and h > 0:
\* the size (Dx, Dy) of the rectangle it returns.  image.Rect(0, 0, X, Y)
\* swaps its corners when X or Y is negative, so a side is |X| or |Y| long.
FitRect(w, h, x, y) ==
    LET scale == FitScale(w, h, x, y)
    IN  IF scale = Float(1) THEN <<w, h>>
        ELSE <<Abs(RoundInt(MulF(scale, w))), Abs(RoundInt(MulF(scale, h)))>>

\* FitRect for the images and the bounding boxes of the runs, computed once.
PageRects ==
    [k \in {<<ImageSize(pos)[1], ImageSize(pos)[2], b[1], b[2]>> :
               pos \in 1..MaxEntries, b \in Boxes} |->
        FitRect(k[1], k[2], k[3], k[4])] @@ <<>>

-----------------------------------------------------------------------------
(* State of one run *)

NoImg == [entry |-> 0, w |-> 0, h |-> 0]

NoPage == [buf |-> 0, index |-> 0, w |-> 0, h |-> 0]

\* No function of package imgutil is being called.
NoImgutil == [op |-> "none", pc |-> "idle"]

\* A run whose ConvertToWriter(path, out) has been called and not started.
NewRun(st, path, stat, n, faults, ncpu) ==
    [ status |-> st, path |-> path, stat |-> stat, nentries |-> n,
      \* runtime.NumCPU()
      NumCPU |-> ncpu,
      \* the errors the environment of this run can produce
      faults |-> faults,
      \* the errors stages of this run have met, as they happened
      failed |-> {},
      reader |-> "none", result |-> "none",
      \* errgroups: of ConvertToWriter, of readZip/readDir, of decode
      g0 |-> "nil", g1 |-> "nil", g2 |-> "nil",
      \* the goroutine running read(ctx, pages, in)
      rpc |-> "off",
      \* readZipFiles / readDirFiles
      fpc |-> "off", fpos |-> 0, fname |-> <<>>, fidx |-> 0, ffile |-> 0,
      images |-> <<>>, rawSent |-> <<>>,
      \* the files opened: entry position -> who called Close, in order
      files |-> <<>>,
      \* decode and its workers
      dpc |-> "off", dIdle |-> 0, dBusy |-> {}, dDone |-> 0,
      \* convert and its workers
      cpc |-> "off", cIdle |-> 0, cBusy |-> {}, cDone |-> 0,
      \* writeZip
      wpc |-> "off", wpage |-> NoPage, werr |-> "nil",
      zip |-> <<>>, zipClosed |-> FALSE,
      \* channels
      rawClosed |-> FALSE, pagesClosed |-> FALSE, convertedClosed |-> FALSE ]

\* ctx of ConvertToWriter's errgroup: cancelled by the first error, or by Wait.
ctx0Done(r) == run[r].g0 # "nil" \/ run[r].status = "returned"

\* ctx of readZip's errgroup, derived from ctx0.
ctx1Done(r) == ctx0Done(r) \/ run[r].g1 # "nil" \/ run[r].rpc = "done"

\* A ctx of decode's errgroup that is not derived from the reader's.
ctx2Done_Detached(r) == run[r].g2 # "nil" \/ run[r].dpc = "done"

\* ctx of decode's errgroup, derived from ctx1.
ctx2Done(r) == ctx1Done(r) \/ run[r].g2 # "nil" \/ run[r].dpc = "done"

-----------------------------------------------------------------------------
(* ImagePool and cacheScaler as the pipeline uses them: each call is atomic, *)
(* being made under the pool's or the cache's mutex.                        *)

ZeroPix == [run |-> "", entry |-> 0, stage |-> "zero"]

PoolState == [cache |-> cache, pools |-> pools, bufs |-> bufs]

\* ImagePool.getPool(pixLen): the pool of the key, created when missing.
getPool(S, pixLen) ==
    IF pixLen \in DOMAIN S.cache
    THEN [cache |-> S.cache, pools |-> S.pools, pool |-> S.cache[pixLen]]
    ELSE [cache |-> S.cache @@ (pixLen :> Len(S.pools) + 1),
          pools |-> Append(S.pools, [key |-> pixLen, free |-> {}]),
          pool |-> Len(S.pools) + 1]

\* What sync.Pool.Get may hand out: a slice of the free list, or a new one.
GetChoices(S, pixLen) ==
    (IF pixLen \in DOMAIN S.cache THEN S.pools[S.cache[pixLen]].free ELSE {})
        \cup {Len(S.bufs) + 1}

\* ImagePool.Get(width, height), handing out slice b.
PoolGet(S, width, height, b) ==
    LET g == getPool(S, width * height)
    IN  [cache |-> g.cache,
         pools |-> [g.pools EXCEPT ![g.pool].free = @ \ {b}],
         bufs |-> IF b > Len(S.bufs)
                  THEN Append(S.bufs, [len |-> g.pools[g.pool].key, pix |-> ZeroPix])
                  ELSE S.bufs]

\* ImagePool.Put(img) of the image whose Pix is slice b.
PoolPut(S, b) ==
    LET g == getPool(S, S.bufs[b].len)
    IN  [cache |-> g.cache,
         pools |-> [g.pools EXCEPT ![g.pool].free = @ \cup {b}],
         bufs |-> S.bufs]

SetPool(S) == cache' = S.cache /\ pools' = S.pools /\ bufs' = S.bufs

-----------------------------------------------------------------------------
(* ConvertToWriter *)

Upd(r, rec) == run' = [run EXCEPT ![r] = rec]

\* ConvertToWriter up to the three errg.Go calls: selectReader, then either
\* the early return or the start of the reader, convert and writer goroutines.
Start(r) ==
    /\ run[r].status = "called"
    /\ LET sel == selectReader(run[r].path, run[r].stat)
       IN  IF sel.err # "nil"
           THEN Upd(r, [run[r] EXCEPT !.status = "returned", !.result = sel.err])
           ELSE Upd(r, [run[r] EXCEPT
                    !.status = "running", !.reader = sel.reader,
                    !.rpc = IF sel.reader = "readZip" THEN "open" ELSE "wait",
                    !.fpc = IF sel.reader = "readZip" THEN "off" ELSE "next",
                    !.dpc = IF sel.reader = "readZip" THEN "off" ELSE "wait",
                    !.dIdle = IF sel.reader = "readZip" THEN 0 ELSE run[r].NumCPU,
                    !.cpc = "wait", !.cIdle = run[r].NumCPU, !.wpc = "recv"])
    /\ UNCHANGED shared

\* readZip: zip.OpenReader, which may fail, then the two errg.Go calls.
ReadZipOpen(r) ==
    /\ run[r].rpc = "open"
    /\ \/ /\ ErrOpen \in run[r].faults
          /\ Upd(r, Fail([run[r] EXCEPT !.rpc = "done", !.pagesClosed = TRUE,
                                        !.g0 = RecordErr(@, ErrOpen)], ErrOpen))
       \/ Upd(r, [run[r] EXCEPT !.rpc = "wait", !.fpc = "next", !.dpc = "wait",
                                !.dIdle = run[r].NumCPU])
    /\ UNCHANGED shared

\* readZipFiles / readDirFiles return err: the goroutine records it in the
\* reader's errgroup and closes raw.
FReturn(rec, err) ==
    [rec EXCEPT !.fpc = "done", !.ffile = 0, !.fname = <<>>, !.rawClosed = TRUE,
                !.g1 = RecordErr(@, err)]

\* One iteration of the loop over the entries, up to the select: an entry that
\* is no image is passed over, an image is opened.
FNext(r) ==
    /\ run[r].fpc = "next"
    /\ \/ /\ run[r].fpos = run[r].nentries
          /\ Upd(r, FReturn(run[r], "nil"))
       \/ /\ run[r].fpos < run[r].nentries
          /\ \E name \in EntryNames :
               LET pos == run[r].fpos + 1
                   rec == [run[r] EXCEPT !.fpos = pos, !.fname = name]
               IN  \/ /\ run[r].reader = "readDir"
                      /\ ErrWalk \in run[r].faults
                      /\ Upd(r, Fail(FReturn(rec, ErrWalk), ErrWalk))
                   \/ /\ ~isImage(name)
                      /\ Upd(r, rec)
                   \/ /\ isImage(name)
                      /\ \/ /\ ErrOpen \in run[r].faults
                            /\ Upd(r, Fail(FReturn([rec EXCEPT !.images = Append(@, pos)],
                                                   ErrOpen), ErrOpen))
                         \/ Upd(r, [rec EXCEPT !.images = Append(@, pos),
                                               !.files = @ @@ (pos :> <<>>),
                                               !.ffile = pos, !.fpc = "send"])
    /\ UNCHANGED shared

\* A send on a channel with room: the reader goes on though no decode worker
\* is waiting.
FSend_Buffered(r) ==
    /\ run[r].fpc = "send"
    /\ LET raw == [file |-> run[r].ffile, index |-> run[r].fidx]
       IN  Upd(r, [run[r] EXCEPT
                 !.fpc = "next", !.ffile = 0, !.fidx = nextIndex(@),
                 !.rawSent = Append(@, raw),
                 !.dIdle = @ - 1,
                 !.dBusy = @ \cup {[pc |-> "decode", file |-> raw.file,
                                    index |-> raw.index, img |-> NoImg]}])
    /\ UNCHANGED shared

\* case pages <- rawPage{file, i}: a decode worker waiting in "range raws"
\* receives the raw page.
FSend(r) ==
    /\ run[r].fpc = "send"
    /\ run[r].dIdle > 0
    /\ LET raw == [file |-> run[r].ffile, index |-> run[r].fidx]
       IN  Upd(r, [run[r] EXCEPT
                 !.fpc = "next", !.ffile = 0, !.fidx = nextIndex(@),
                 !.rawSent = Append(@, raw),
                 !.dIdle = @ - 1,
                 !.dBusy = @ \cup {[pc |-> "decode", file |-> raw.file,
                                    index |-> raw.index, img |-> NoImg]}])
    /\ UNCHANGED shared

\* case <-ctx.Done(): the reader closes the file it holds and returns ctx.Err().
FCancel(r) ==
    /\ run[r].fpc = "send"
    /\ ctx1Done(r)
    /\ Upd(r, FReturn([run[r] EXCEPT !.files = Close(@, run[r].ffile, "reader")],
                       ErrCanceled))
    /\ UNCHANGED shared

\* A decode worker finds raws closed and returns nil.
DExit(r) ==
    /\ run[r].dIdle > 0
    /\ run[r].rawClosed
    /\ Upd(r, [run[r] EXCEPT !.dIdle = @ - 1, !.dDone = @ + 1])
    /\ UNCHANGED shared

\* decodeImage(raw.File): the file is closed; the image decodes or does not.
DDecode(r) ==
    /\ \E w \in run[r].dBusy :
         /\ w.pc = "decode"
         /\ LET rec == [run[r] EXCEPT !.files = Close(@, w.file, "decode")]
            IN  \/ /\ ErrDecode \in run[r].faults
                   /\ Upd(r, Fail([rec EXCEPT !.dBusy = @ \ {w}, !.dDone = @ + 1,
                                              !.g2 = RecordErr(@, ErrDecode)], ErrDecode))
                \/ Upd(r, [rec EXCEPT !.dBusy = (@ \ {w}) \cup
                       {[w EXCEPT !.pc = "send",
                                  !.img = [entry |-> w.file,
                                           w |-> ImageSize(w.file)[1],
                                           h |-> ImageSize(w.file)[2]]]}])
    /\ UNCHANGED shared

\* case pages <- page{img, raw.Index}: a convert worker waiting in
\* "range pages" receives the page; the decode worker goes back to "range raws".
DSend(r) ==
    /\ run[r].cIdle > 0
    /\ \E w \in run[r].dBusy :
         /\ w.pc = "send"
         /\ Upd(r, [run[r] EXCEPT
                !.dBusy = @ \ {w}, !.dIdle = @ + 1,
                !.cIdle = @ - 1,
                !.cBusy = @ \cup {[pc |-> "page", index |-> w.index, img |-> w.img,
                                   src |-> 0, dst |-> 0, dw |-> 0, dh |-> 0]}])
    /\ UNCHANGED shared

\* case <-ctx.Done(): the decode worker returns ctx.Err().
DCancel(r) ==
    /\ ctx2Done(r)
    /\ \E w \in run[r].dBusy :
         /\ w.pc = "send"
         /\ Upd(r, [run[r] EXCEPT !.dBusy = @ \ {w}, !.dDone = @ + 1,
                                  !.g2 = RecordErr(@, ErrCanceled)])
    /\ UNCHANGED shared

\* decode: errg.Wait() returns once every worker has, and its error is
\* recorded in the reader's errgroup.
DecodeReturn(r) ==
    /\ run[r].dpc = "wait"
    /\ run[r].dDone = run[r].NumCPU
    /\ Upd(r, [run[r] EXCEPT !.dpc = "done", !.g1 = RecordErr(@, run[r].g2)])
    /\ UNCHANGED shared

\* readZip / readDir: errg.Wait() returns, the error is recorded in
\* ConvertToWriter's errgroup and pages is closed.
ReadReturn(r) ==
    /\ run[r].rpc = "wait"
    /\ run[r].fpc = "done"
    /\ run[r].dpc = "done"
    /\ Upd(r, [run[r] EXCEPT !.rpc = "done", !.pagesClosed = TRUE,
                             !.g0 = RecordErr(@, run[r].g1)])
    /\ UNCHANGED shared

\* A convert worker finds pages closed and returns.
CExit(r) ==
    /\ run[r].cIdle > 0
    /\ run[r].pagesClosed
    /\ Upd(r, [run[r] EXCEPT !.cIdle = @ - 1, !.cDone = @ + 1])
    /\ UNCHANGED shared

\* grayscale(dst, img): every pixel of dst is written from img.
grayscale(S, b, r, img) ==
    [S EXCEPT !.bufs[b].pix = [run |-> r, entry |-> img.entry, stage |-> <<"gray">>]]

\* src := c.pool.GetFromImage(pg.Image); r := imgutil.FitRect(...);
\* dst := c.pool.Get(r.Dx(), r.Dy())
CGet(r) ==
    /\ \E w \in run[r].cBusy :
         /\ w.pc = "page"
         /\ \E s \in GetChoices(PoolState, w.img.w * w.img.h) :
              LET S1 == grayscale(PoolGet(PoolState, w.img.w, w.img.h, s), s, r, w.img)
                  rect == PageRects[<<w.img.w, w.img.h, params[1], params[2]>>]
              IN  \E d \in GetChoices(S1, rect[1] * rect[2]) :
                    /\ SetPool(PoolGet(S1, rect[1], rect[2], d))
                    /\ Upd(r, [run[r] EXCEPT !.cBusy = (@ \ {w}) \cup
                          {[w EXCEPT !.pc = "scale", !.src = s, !.dst = d,
                                     !.dw = rect[1], !.dh = rect[2]]}])
    /\ UNCHANGED <<params, zcache, scalers, callers>>

\* cacheScaler.Scale(dst, src): the Scaler of the key is looked up, or built
\* and inserted, under the lock; it then writes every pixel of dst from src.
CScale(r) ==
    /\ \E w \in run[r].cBusy :
         /\ w.pc = "scale"
         /\ LET key == <<w.dw, w.dh, w.img.w, w.img.h>>
            IN  IF key \in DOMAIN zcache
                THEN UNCHANGED <<zcache, scalers>>
                ELSE /\ scalers' = Append(scalers, key)
                     /\ zcache' = zcache @@ (key :> Len(scalers) + 1)
         /\ bufs' = [bufs EXCEPT ![w.dst].pix =
                        [bufs[w.src].pix EXCEPT !.stage = Append(@, "scale")]]
         /\ Upd(r, [run[r] EXCEPT !.cBusy = (@ \ {w}) \cup {[w EXCEPT !.pc = "put"]}])
    /\ UNCHANGED <<params, cache, pools, callers>>

\* A worker that Puts dst where the code Puts src.
CPut_Dst(r) ==
    /\ \E w \in run[r].cBusy :
         /\ w.pc = "put"
         /\ LET S1 == PoolPut(PoolState, w.dst)
            IN  SetPool([S1 EXCEPT !.bufs[w.dst].pix.stage = Append(@, "tone")])
         /\ Upd(r, [run[r] EXCEPT !.cBusy = (@ \ {w}) \cup {[w EXCEPT !.pc = "send"]}])
    /\ UNCHANGED <<params, zcache, scalers, callers>>

\* c.pool.Put(src); imgutil.AutoContrast(dst, ...); imgutil.AdjustGamma(dst, ...)
CPut(r) ==
    /\ \E w \in run[r].cBusy :
         /\ w.pc = "put"
         /\ LET S1 == PoolPut(PoolState, w.src)
            IN  SetPool([S1 EXCEPT !.bufs[w.dst].pix.stage = Append(@, "tone")])
         /\ Upd(r, [run[r] EXCEPT !.cBusy = (@ \ {w}) \cup {[w EXCEPT !.pc = "send"]}])
    /\ UNCHANGED <<params, zcache, scalers, callers>>

\* case converted <- page{dst, pg.Index}: the writer, waiting in
\* "range pages", receives the page; the worker goes back to "range pages".
CSend(r) ==
    /\ run[r].wpc = "recv"
    /\ \E w \in run[r].cBusy :
         /\ w.pc = "send"
         /\ Upd(r, [run[r] EXCEPT
                !.cBusy = @ \ {w}, !.cIdle = @ + 1,
                !.wpc = "write",
                !.wpage = [buf |-> w.dst, index |-> w.index, w |-> w.dw, h |-> w.dh]])
    /\ UNCHANGED shared

\* A send of the convert worker that is in no select: nothing but the
\* writer's receive ends it.
CCancel_NoSelect(r) == FALSE /\ UNCHANGED vars

\* case <-ctx.Done(): the convert worker returns, dropping dst.
CCancel(r) ==
    /\ ctx0Done(r)
    /\ \E w \in run[r].cBusy :
         /\ w.pc = "send"
         /\ Upd(r, [run[r] EXCEPT !.cBusy = @ \ {w}, !.cDone = @ + 1])
    /\ UNCHANGED shared

\* convert: wg.Wait() returns once every worker has; converted is closed.
ConvertReturn(r) ==
    /\ run[r].cpc = "wait"
    /\ run[r].cDone = run[r].NumCPU
    /\ Upd(r, [run[r] EXCEPT !.cpc = "done", !.convertedClosed = TRUE])
    /\ UNCHANGED shared

\* writeZip returns err: the deferred w.Close() writes the central directory,
\* and the error is recorded in ConvertToWriter's errgroup.
WReturn(rec, err) ==
    [rec EXCEPT !.wpc = "done", !.zipClosed = TRUE, !.g0 = RecordErr(@, err)]

\* The writer finds converted closed and returns nil.
WExit(r) ==
    /\ run[r].wpc = "recv"
    /\ run[r].convertedClosed
    /\ Upd(r, WReturn(run[r], "nil"))
    /\ UNCHANGED shared

\* A writer that names an entry by its place in the archive.
WWrite_Counted(r) ==
    /\ run[r].wpc = "write"
    /\ Upd(r, [run[r] EXCEPT
           !.wpc = "put", !.werr = "nil",
           !.zip = Append(@, [name |-> EntryName(Len(run[r].zip)),
                              pix |-> bufs[run[r].wpage.buf].pix,
                              ok |-> TRUE])])
    /\ UNCHANGED shared

\* w.CreateHeader(...), which may fail, and saveImg(f, p.Image), which encodes
\* the pixels of the page as they are now and may fail.
WWrite(r) ==
    /\ run[r].wpc = "write"
    /\ \/ /\ ErrWrite \in run[r].faults
          /\ Upd(r, Fail(WReturn(run[r], ErrWrite), ErrWrite))
       \/ \E e \in {"nil"} \cup ({ErrEncode} \cap run[r].faults) :
            Upd(r, [(IF e = "nil" THEN run[r] ELSE Fail(run[r], e)) EXCEPT
                !.wpc = "put", !.werr = e,
                !.zip = Append(@, [name |-> EntryName(run[r].wpage.index),
                                   pix |-> bufs[run[r].wpage.buf].pix,
                                   ok |-> e = "nil"])])
    /\ UNCHANGED shared

\* c.pool.Put(v), then the error of saveImg is returned if there was one.
WPut(r) ==
    /\ run[r].wpc = "put"
    /\ SetPool(PoolPut(PoolState, run[r].wpage.buf))
    /\ IF run[r].werr # "nil"
       THEN Upd(r, WReturn([run[r] EXCEPT !.wpage = NoPage], run[r].werr))
       ELSE Upd(r, [run[r] EXCEPT !.wpc = "recv", !.wpage = NoPage])
    /\ UNCHANGED <<params, zcache, scalers, callers>>

\* errg.Wait() of ConvertToWriter returns the first error recorded.
WaitReturn(r) ==
    /\ run[r].status = "running"
    /\ run[r].rpc = "done"
    /\ run[r].cpc = "done"
    /\ run[r].wpc = "done"
    /\ Upd(r, [run[r] EXCEPT !.status = "returned", !.result = run[r].g0])
    /\ UNCHANGED shared

-----------------------------------------------------------------------------
(* Specification of one run *)

\* The paths converted: a directory, two archives, a file of another kind,
\* a path that does not exist.
PipelineInputs ==
    { [path |-> <<"m">>, stat |-> [exists |-> TRUE, isDir |-> TRUE]],
      [path |-> <<"m", ".", "c", "b", "z">>, stat |-> [exists |-> TRUE, isDir |-> FALSE]],
      [path |-> <<"m", ".", "r", "a", "r">>, stat |-> [exists |-> TRUE, isDir |-> FALSE]],
      [path |-> <<"m", ".", "z", "i", "p">>, stat |-> [exists |-> FALSE, isDir |-> FALSE]] }

NotCalled == NewRun("idle", <<>>, [exists |-> FALSE, isDir |-> FALSE], 0, {}, 0)

InitShared ==
    /\ params \in Boxes
    /\ cache = <<>>
    /\ pools = <<>>
    /\ bufs = <<>>
    /\ zcache = <<>>
    /\ scalers = <<>>
    /\ zmu = 0
    /\ zcall = <<>>
    /\ zused = {}
    /\ pmu = 0
    /\ pcall = <<>>
    /\ call = NoImgutil

Init ==
    /\ InitShared
    /\ \E in \in PipelineInputs, n \in 0..MaxEntries, c \in 1..MaxCPU :
         /\ c + n <= MaxLoad
         /\ run = [r \in Runs |->
                   IF r = "a" THEN NewRun("called", in.path, in.stat, n, StageErrors, c)
                   ELSE NotCalled]

Step(r) ==
    \/ Start(r)
    \/ ReadZipOpen(r)
    \/ FNext(r)
    \/ FSend(r)
    \/ FCancel(r)
    \/ DExit(r)
    \/ DDecode(r)
    \/ DSend(r)
    \/ DCancel(r)
    \/ DecodeReturn(r)
    \/ ReadReturn(r)
    \/ CExit(r)
    \/ CGet(r)
    \/ CScale(r)
    \/ CPut(r)
    \/ CSend(r)
    \/ CCancel(r)
    \/ ConvertReturn(r)
    \/ WExit(r)
    \/ WWrite(r)
    \/ WPut(r)
    \/ WaitReturn(r)

Next == \E r \in Runs : Step(r)

Spec == Init /\ [][Next]_vars

\* The scheduler runs a goroutine that can take a step.
FairSpec == Init /\ [][Next]_vars /\ WF_vars(Next)

-----------------------------------------------------------------------------
(* Claims about one run *)

Called(r) == run[r].status # "idle"

Returned(r) == run[r].status = "returned"

Piped(r) == run[r].reader # "none"

\* No goroutine of the run is left.
Quiet(r) ==
    /\ run[r].rpc \in {"off", "done"}
    /\ run[r].fpc \in {"off", "done"}
    /\ run[r].dpc \in {"off", "done"}
    /\ run[r].cpc \in {"off", "done"}
    /\ run[r].wpc \in {"off", "done"}
    /\ run[r].dIdle = 0 /\ run[r].dBusy = {}
    /\ run[r].cIdle = 0 /\ run[r].cBusy = {}

\* C1: every run of ConvertToWriter returns, whatever fails and however the
\* goroutines interleave, and when it has returned none of its goroutines is
\* left blocked on a channel.
C1_Terminates == <>(\A r \in Runs : Called(r) => Returned(r) /\ Quiet(r))

\* A run returned the writer's error after the reader, blocked sending a raw
\* page, was cancelled.
C1_Witness ==
    \E r \in Runs :
        /\ Returned(r) /\ Quiet(r)
        /\ run[r].result = ErrWrite
        /\ run[r].g1 = ErrCanceled
        /\ run[r].fidx >= 1

\* The name of the archive entry of index i < 10, written out.
NineDigitName(i) ==
    <<"0", "0", "0", "0", "0", "0", "0", "0",
      <<"0", "1", "2", "3", "4", "5", "6", "7", "8", "9">>[i + 1],
      ".", "j", "p", "g">>

\* The converted image of the entry at position pos of run r.
ConvertedImage(r, pos) ==
    [run |-> r, entry |-> pos, stage |-> <<"gray", "scale", "tone">>]

\* C2: a run in which no stage failed has written exactly one entry per image,
\* named by the image's nine-digit index and holding that image, converted.
C2_OneEntryPerImage ==
    \A r \in Runs :
        Returned(r) /\ Piped(r) /\ run[r].result = "nil" =>
            LET n == Len(run[r].images)
                z == run[r].zip
            IN  /\ Len(z) = n
                /\ \A i \in 0..(n - 1) :
                     \E k \in 1..Len(z) :
                        /\ z[k].name = NineDigitName(i)
                        /\ z[k].pix = ConvertedImage(r, run[r].images[i + 1])
                        /\ z[k].ok
                        /\ \A j \in 1..Len(z) : z[j].name = z[k].name => j = k

\* A run wrote the entry of index 1 before the entry of index 0.
C2_Witness ==
    \E r \in Runs :
        /\ Returned(r) /\ run[r].result = "nil"
        /\ Len(run[r].zip) = 2
        /\ run[r].zip[1].name = NineDigitName(1)

\* C3: the error ConvertToWriter returns is one a stage of the run failed
\* with, never the cancellation error of a sibling, and nil only when no stage
\* failed.
C3_FirstErrorReported ==
    \A r \in Runs :
        /\ run[r].g0 # ErrCanceled
        /\ Returned(r) /\ Piped(r) =>
             IF run[r].failed = {} THEN run[r].result = "nil"
             ELSE run[r].result \in run[r].failed

\* A decode worker failed, its siblings and the reader returned the
\* cancellation error, and the run returned the decode error.
C3_Witness ==
    \E r \in Runs :
        /\ Returned(r)
        /\ run[r].result = ErrDecode
        /\ run[r].g2 = ErrDecode
        /\ run[r].fidx >= 2

\* C4: the archive is finalized only when no stage failed and every image of
\* the input has been written.
C4_AllOrNothing ==
    \A r \in Runs :
        run[r].zipClosed =>
            /\ run[r].failed = {}
            /\ run[r].fpos = run[r].nentries
            /\ Len(run[r].zip) = Len(run[r].images)

\* The files handed to a decode worker.
Handed(r) == {run[r].rawSent[i].file : i \in 1..Len(run[r].rawSent)}

\* C5: a file is closed at most once; one handed to a decode worker only by
\* that worker, one the reader kept only by the reader; and when the run has
\* returned every file opened is closed.
C5_ClosedExactlyOnce ==
    \A r \in Runs :
        \A pos \in DOMAIN run[r].files :
            /\ Len(run[r].files[pos]) <= 1
            /\ run[r].files[pos] = <<"decode">> => pos \in Handed(r)
            /\ run[r].files[pos] = <<"reader">> => pos \notin Handed(r)
            /\ Returned(r) => Len(run[r].files[pos]) = 1

\* A run returned after a decode worker closed one file and the reader,
\* cancelled, closed another.
C5_Witness ==
    \E r \in Runs :
        /\ Returned(r)
        /\ \E p, q \in DOMAIN run[r].files :
             run[r].files[p] = <<"decode">> /\ run[r].files[q] = <<"reader">>

\* The entry names of EntryNames with the extension .png, .jpg or .webp.
ImageNames ==
    { <<"p", ".", "p", "n", "g">>, <<"p", ".", "j", "p", "g">>,
      <<"p", ".", "w", "e", "b", "p">> }

\* Indices 0, 1, 2, ... go to the images in the order of the entries, raw
\* pages leave the reader in that order, and a page keeps the image of its index.
IndexInOrder(r) ==
    LET im == run[r].images
        rs == run[r].rawSent
    IN  /\ \A i \in 1..Len(rs) : rs[i].index = i - 1 /\ rs[i].file = im[i]
        /\ run[r].fidx = Len(rs)
        /\ Len(im) - Len(rs) \in {0, 1}
        /\ \A i \in 1..(Len(im) - 1) : im[i] < im[i + 1]
        /\ \A w \in run[r].dBusy :
             /\ w.file = im[w.index + 1]
             /\ w.pc = "send" => w.img.entry = im[w.index + 1]
        /\ \A w \in run[r].cBusy : w.img.entry = im[w.index + 1]

\* The reader passes to the next entry: an image is opened and is the next
\* image; any other entry is passed over and nothing of the reader changes.
EntryStep(r) ==
    run'[r].fpos = run[r].fpos + 1 /\ run'[r].fname # <<>> =>
        IF run'[r].fname \in ImageNames
        THEN /\ run'[r].images = Append(run[r].images, run'[r].fpos)
             /\ run'[r].ffile = run'[r].fpos
             /\ run'[r].fidx = run[r].fidx
        ELSE /\ run'[r].images = run[r].images
             /\ run'[r].fidx = run[r].fidx
             /\ run'[r].files = run[r].files
             /\ run'[r].fpc = "next"

\* C7: the reader gives the indices 0, 1, 2, ... to exactly the entries named
\* .png, .jpg or .webp, in their order; other entries use no index; raw pages
\* are sent in increasing index order without gaps; the page of index i holds
\* the image decoded from the i-th image entry.
C7_IndicesFollowImages ==
    /\ [](\A r \in Runs : IndexInOrder(r))
    /\ [][\A r \in Runs : EntryStep(r)]_vars

\* The first entry was passed over, and the page of index 0, decoded from the
\* second entry, has reached a convert worker.
C7_Witness ==
    \E r \in Runs :
        /\ run[r].images = <<2>>
        /\ \E w \in run[r].cBusy : w.index = 0 /\ w.img.entry = 2

-----------------------------------------------------------------------------
(* Specification of selectReader: ConvertToWriter up to the choice of the   *)
(* reader, on paths of many shapes.                                         *)

SelectDirs == { <<>>, <<"a", "/">>, <<"a", ".", "b", "/">>, <<".", "/">> }

SelectStems == { <<>>, <<"m">>, <<"m", ".", "x">> }

SelectExts ==
    { <<>>, <<".", "z", "i", "p">>, <<".", "c", "b", "z">>,
      <<".", "p", "n", "g">>, <<".", "r", "a", "r">>, <<".">>,
      <<".", "z", "i">>, <<"z", "i", "p">>, <<".", "c", "b", "z", "/">> }

SelectPaths == {d \o m \o e : d \in SelectDirs, m \in SelectStems, e \in SelectExts}

\* What os.Stat may say: no such path, a file, a directory.
Stats ==
    { [exists |-> FALSE, isDir |-> FALSE], [exists |-> TRUE, isDir |-> FALSE],
      [exists |-> TRUE, isDir |-> TRUE] }

InitSelect ==
    /\ InitShared
    /\ \E p \in SelectPaths, st \in Stats :
         run = [r \in Runs |->
                   IF r = "a" THEN NewRun("called", p, st, 0, {}, 1) ELSE NotCalled]

NextSelect == \E r \in Runs : Start(r)

SpecSelect == InitSelect /\ [][NextSelect]_vars

\* The path ends with suffix e.
EndsWith(path, e) ==
    Len(path) >= Len(e) /\ SubSeq(path, Len(path) - Len(e) + 1, Len(path)) = e

\* The final element of the path has no dot.
NoExtension(path) ==
    \A i \in 1..Len(path) :
        path[i] = "." => \E j \in (i + 1)..Len(path) : path[j] = "/"

\* No reader was chosen and nothing of the pipeline was started.
Refused(r, err) ==
    /\ Returned(r) /\ run[r].result = err /\ run[r].reader = "none"
    /\ Quiet(r) /\ run[r].rpc = "off" /\ run[r].fpc = "off" /\ run[r].wpc = "off"
    /\ run[r].images = <<>> /\ run[r].rawSent = <<>> /\ run[r].zip = <<>>

\* C6: a path that cannot be stat'ed is refused with ErrCannotReadPath; a path
\* without extension that is a directory gets the directory reader; a path
\* with extension .zip or .cbz gets the zip reader; any other path is refused
\* with ErrUnsupportedFormat; a refused path gets no reader and emits no page.
C6_SelectReader ==
    \A r \in Runs :
        run[r].status \in {"running", "returned"} =>
            LET path == run[r].path
                zip == EndsWith(path, <<".", "z", "i", "p">>)
                         \/ EndsWith(path, <<".", "c", "b", "z">>)
            IN  IF ~run[r].stat.exists THEN Refused(r, ErrCannotReadPath)
                ELSE IF NoExtension(path) /\ run[r].stat.isDir
                     THEN run[r].reader = "readDir"
                ELSE IF zip THEN run[r].reader = "readZip"
                ELSE Refused(r, ErrUnsupportedFormat)

\* A file without extension, in a directory whose name has a dot, was refused.
C6_Witness ==
    \E r \in Runs :
        /\ run[r].path = <<"a", ".", "b", "/", "m">>
        /\ ~run[r].stat.isDir
        /\ Refused(r, ErrUnsupportedFormat)

-----------------------------------------------------------------------------
(* Specification of the cacheScaler: goroutines calling Scale, step by step *)

\* The number of goroutines calling Scale at once.
ScaleCallers == 2

\* The number of calls each of them makes.
ScaleCalls == 2

\* The keys (dw, dh, sw, sh) of the calls.
ScaleKeys == { <<2, 1, 4, 2>>, <<2, 1, 2, 1>> }

NoCall == [pc |-> "idle", key |-> <<>>, scaler |-> 0, ok |-> FALSE, n |-> 0]

\* key := cacheKey{...}: a call of Scale(dst, src) begins.
ZBegin(t) ==
    /\ zcall[t].pc = "idle"
    /\ zcall[t].n < ScaleCalls
    /\ \E k \in ScaleKeys :
         zcall' = [zcall EXCEPT ![t] = [@ EXCEPT !.pc = "lock", !.key = k, !.n = @ + 1]]
    /\ UNCHANGED <<run, params, cache, pools, bufs, zcache, scalers, zmu, zused, pmu, pcall, call>>

\* A lock that excludes nobody.
ZLock_NoMutex(t) ==
    /\ zcall[t].pc = "lock"
    /\ zmu' = t
    /\ zcall' = [zcall EXCEPT ![t].pc = "lookup"]
    /\ UNCHANGED <<run, params, cache, pools, bufs, zcache, scalers, zused, pmu, pcall, call>>

\* z.mu.Lock()
ZLock(t) ==
    /\ zcall[t].pc = "lock"
    /\ zmu = 0
    /\ zmu' = t
    /\ zcall' = [zcall EXCEPT ![t].pc = "lookup"]
    /\ UNCHANGED <<run, params, cache, pools, bufs, zcache, scalers, zused, pmu, pcall, call>>

\* scaler, ok := z.cache[key]
ZLookup(t) ==
    /\ zcall[t].pc = "lookup"
    /\ LET ok == zcall[t].key \in DOMAIN zcache
       IN  zcall' = [zcall EXCEPT ![t] = [@ EXCEPT
                        !.pc = IF ok THEN "unlock" ELSE "build",
                        !.ok = ok,
                        !.scaler = IF ok THEN zcache[zcall[t].key] ELSE 0]]
    /\ UNCHANGED <<run, params, cache, pools, bufs, zcache, scalers, zmu, zused, pmu, pcall, call>>

\* scaler = z.kernel.NewScaler(...); z.cache[key] = scaler
ZBuild(t) ==
    /\ zcall[t].pc = "build"
    /\ scalers' = Append(scalers, zcall[t].key)
    /\ zcache' = (zcall[t].key :> Len(scalers) + 1) @@ zcache
    /\ zcall' = [zcall EXCEPT ![t] = [@ EXCEPT !.pc = "unlock",
                                                !.scaler = Len(scalers) + 1]]
    /\ UNCHANGED <<run, params, cache, pools, bufs, zmu, zused, pmu, pcall, call>>

\* z.mu.Unlock()
ZUnlock(t) ==
    /\ zcall[t].pc = "unlock"
    /\ zmu' = 0
    /\ zcall' = [zcall EXCEPT ![t].pc = "scale"]
    /\ UNCHANGED <<run, params, cache, pools, bufs, zcache, scalers, zused, pmu, pcall, call>>

\* scaler.Scale(dst, src), outside the lock.
ZScale(t) ==
    /\ zcall[t].pc = "scale"
    /\ zused' = zused \cup {<<zcall[t].key, zcall[t].scaler>>}
    /\ zcall' = [zcall EXCEPT ![t] = [@ EXCEPT !.pc = "idle", !.scaler = 0, !.ok = FALSE]]
    /\ UNCHANGED <<run, params, cache, pools, bufs, zcache, scalers, zmu, pmu, pcall, call>>

SpecCacheInit ==
    /\ run = [r \in Runs |-> NotCalled]
    /\ params \in Boxes
    /\ cache = <<>> /\ pools = <<>> /\ bufs = <<>>
    /\ zcache = <<>> /\ scalers = <<>>
    /\ zmu = 0 /\ zused = {}
    /\ zcall = [t \in 1..ScaleCallers |-> NoCall]
    /\ pmu = 0 /\ pcall = <<>>
    /\ call = NoImgutil

NextCache ==
    \E t \in DOMAIN zcall :
        ZBegin(t) \/ ZLock(t) \/ ZLookup(t) \/ ZBuild(t) \/ ZUnlock(t) \/ ZScale(t)

SpecCache == SpecCacheInit /\ [][NextCache]_vars

\* The Scalers a call has in hand or has used, with the key of the call.
ScalerUses ==
    zused \cup {<<zcall[t].key, zcall[t].scaler>> :
                   t \in {u \in DOMAIN zcall : zcall[u].scaler # 0}}

\* One Scaler per key, the one in the cache, used by every call of the key.
OneScalerPerKey ==
    /\ \A i, j \in 1..Len(scalers) : scalers[i] = scalers[j] => i = j
    /\ \A k \in DOMAIN zcache : scalers[zcache[k]] = k
    /\ \A u \in ScalerUses : u[1] \in DOMAIN zcache /\ zcache[u[1]] = u[2]
    /\ \A u, v \in ScalerUses : (u[1] = v[1]) <=> (u[2] = v[2])

\* An entry of the cache stays as it is.
CacheStable == \A k \in DOMAIN zcache : k \in DOMAIN zcache' /\ zcache'[k] = zcache[k]

\* C8: however the calls of Scale interleave, one Scaler is built for a key
\* and every call with the key uses it; an entry of the cache is never
\* replaced or removed; calls with different keys use different Scalers.
C8_OneScalerPerKey == []OneScalerPerKey /\ [][CacheStable]_vars

\* Two Scalers are in the cache, and one of them was used by a call that
\* found it there while another call with the same key is about to use it.
C8_Witness ==
    /\ Cardinality(DOMAIN zcache) = 2
    /\ \E t \in DOMAIN zcall :
         /\ zcall[t].pc = "scale" /\ zcall[t].ok
         /\ <<zcall[t].key, zcall[t].scaler>> \in zused

-----------------------------------------------------------------------------
(* Specification of the ImagePool: goroutines calling Get and Put, step by  *)
(* step                                                                     *)

\* The number of goroutines calling Get and Put at once.
PoolCallers == 2

\* The number of calls each of them makes.
PoolCalls == 2

\* The sizes (width, height) asked of Get.
PoolDims == { <<1, 2>>, <<2, 1>>, <<2, 2>> }

\* The images a caller makes itself, to Put them: one is padded.
OwnImages ==
    { [w |-> 1, h |-> 2, stride |-> 2], [w |-> 2, h |-> 1, stride |-> 2] }

NoGray == [buf |-> 0, stride |-> 0, x0 |-> 0, y0 |-> 0, x1 |-> 0, y1 |-> 0]

NoPoolCall ==
    [pc |-> "idle", op |-> "none", width |-> 0, height |-> 0, pixLen |-> 0,
     pool |-> 0, img |-> NoGray, n |-> 0]

\* A caller makes an image.Gray of its own.
PNewGray(t) ==
    /\ pcall[t].pc = "idle"
    /\ pcall[t].img = NoGray
    /\ pcall[t].n < PoolCalls
    /\ \E g \in OwnImages :
         /\ bufs' = Append(bufs, [len |-> g.stride * g.h, pix |-> ZeroPix])
         /\ pcall' = [pcall EXCEPT ![t] = [@ EXCEPT
                !.op = "new",
                !.img = [buf |-> Len(bufs) + 1, stride |-> g.stride,
                         x0 |-> 0, y0 |-> 0, x1 |-> g.w, y1 |-> g.h]]]
    /\ UNCHANGED <<run, params, cache, pools, zcache, scalers, zmu, zcall, zused, pmu, call>>

\* Get(width, height) is called: p.getPool(width * height) begins.
PBeginGet(t) ==
    /\ pcall[t].pc = "idle"
    /\ pcall[t].img = NoGray
    /\ pcall[t].n < PoolCalls
    /\ \E d \in PoolDims :
         pcall' = [pcall EXCEPT ![t] = [@ EXCEPT
             !.pc = "lock", !.op = "get", !.width = d[1], !.height = d[2],
             !.pixLen = d[1] * d[2], !.n = @ + 1]]
    /\ UNCHANGED <<run, params, cache, pools, bufs, zcache, scalers, zmu, zcall, zused, pmu, call>>

\* A Put that files the slice under the area of the image.
PBeginPut_ByArea(t) ==
    /\ pcall[t].pc = "idle"
    /\ pcall[t].img # NoGray
    /\ pcall[t].n < PoolCalls
    /\ pcall' = [pcall EXCEPT ![t] = [@ EXCEPT
           !.pc = "lock", !.op = "put",
           !.pixLen = (pcall[t].img.x1 - pcall[t].img.x0)
                        * (pcall[t].img.y1 - pcall[t].img.y0),
           !.n = @ + 1]]
    /\ UNCHANGED <<run, params, cache, pools, bufs, zcache, scalers, zmu, zcall, zused, pmu, call>>

\* Put(img) is called: p.getPool(len(img.Pix)) begins.
PBeginPut(t) ==
    /\ pcall[t].pc = "idle"
    /\ pcall[t].img # NoGray
    /\ pcall[t].n < PoolCalls
    /\ pcall' = [pcall EXCEPT ![t] = [@ EXCEPT
           !.pc = "lock", !.op = "put", !.pixLen = bufs[pcall[t].img.buf].len,
           !.n = @ + 1]]
    /\ UNCHANGED <<run, params, cache, pools, bufs, zcache, scalers, zmu, zcall, zused, pmu, call>>

\* p.mu.Lock()
PLock(t) ==
    /\ pcall[t].pc = "lock"
    /\ pmu = 0
    /\ pmu' = t
    /\ pcall' = [pcall EXCEPT ![t].pc = "lookup"]
    /\ UNCHANGED <<run, params, cache, pools, bufs, zcache, scalers, zmu, zcall, zused, call>>

\* pool, ok := p.cache[pixLen]
PLookup(t) ==
    /\ pcall[t].pc = "lookup"
    /\ IF pcall[t].pixLen \in DOMAIN cache
       THEN pcall' = [pcall EXCEPT ![t] = [@ EXCEPT !.pc = "unlock",
                                                    !.pool = cache[pcall[t].pixLen]]]
       ELSE pcall' = [pcall EXCEPT ![t].pc = "create"]
    /\ UNCHANGED <<run, params, cache, pools, bufs, zcache, scalers, zmu, zcall, zused, pmu, call>>

\* pool = &sync.Pool{New: ...}; p.cache[pixLen] = pool
PCreate(t) ==
    /\ pcall[t].pc = "create"
    /\ pools' = Append(pools, [key |-> pcall[t].pixLen, free |-> {}])
    /\ cache' = (pcall[t].pixLen :> Len(pools) + 1) @@ cache
    /\ pcall' = [pcall EXCEPT ![t] = [@ EXCEPT !.pc = "unlock", !.pool = Len(pools) + 1]]
    /\ UNCHANGED <<run, params, bufs, zcache, scalers, zmu, zcall, zused, pmu, call>>

\* p.mu.Unlock(); return pool
PUnlock(t) ==
    /\ pcall[t].pc = "unlock"
    /\ pmu' = 0
    /\ pcall' = [pcall EXCEPT ![t].pc = pcall[t].op]
    /\ UNCHANGED <<run, params, cache, pools, bufs, zcache, scalers, zmu, zcall, zused, call>>

\* tmp := pool.Get().(*[]uint8): a slice of the free list, or a new one of
\* the pool's pixLen; return &image.Gray{Pix: *tmp, Stride: width, Rect: ...}
PGet(t) ==
    /\ pcall[t].pc = "get"
    /\ \E b \in pools[pcall[t].pool].free \cup {Len(bufs) + 1} :
         /\ pools' = [pools EXCEPT ![pcall[t].pool].free = @ \ {b}]
         /\ bufs' = IF b > Len(bufs)
                    THEN Append(bufs, [len |-> pools[pcall[t].pool].key, pix |-> ZeroPix])
                    ELSE bufs
         /\ pcall' = [pcall EXCEPT ![t] = [@ EXCEPT
                !.pc = "idle",
                !.img = [buf |-> b, stride |-> pcall[t].width, x0 |-> 0, y0 |-> 0,
                         x1 |-> pcall[t].width, y1 |-> pcall[t].height]]]
    /\ UNCHANGED <<run, params, cache, zcache, scalers, zmu, zcall, zused, pmu, call>>

\* pool.Put(&img.Pix)
PPut(t) ==
    /\ pcall[t].pc = "put"
    /\ pools' = [pools EXCEPT ![pcall[t].pool].free = @ \cup {pcall[t].img.buf}]
    /\ pcall' = [pcall EXCEPT ![t] = [@ EXCEPT !.pc = "idle", !.img = NoGray]]
    /\ UNCHANGED <<run, params, cache, bufs, zcache, scalers, zmu, zcall, zused, pmu, call>>

InitPool ==
    /\ run = [r \in Runs |-> NotCalled]
    /\ params \in Boxes
    /\ cache = <<>> /\ pools = <<>> /\ bufs = <<>>
    /\ zcache = <<>> /\ scalers = <<>>
    /\ zmu = 0 /\ zused = {} /\ zcall = <<>>
    /\ pmu = 0
    /\ pcall = [t \in 1..PoolCallers |-> NoPoolCall]
    /\ call = NoImgutil

NextPool ==
    \E t \in DOMAIN pcall :
        \/ PNewGray(t)
        \/ PBeginGet(t)
        \/ PBeginPut(t)
        \/ PLock(t)
        \/ PLookup(t)
        \/ PCreate(t)
        \/ PUnlock(t)
        \/ PGet(t)
        \/ PPut(t)

SpecPool == InitPool /\ [][NextPool]_vars

\* C9: the image Get(width, height) returns has a pixel slice of width*height
\* bytes, stride width and bounds (0,0)-(width,height); every slice in the
\* free list of key k has length k; no key has two free lists.
C9_PoolKeyedByLength ==
    /\ \A t \in DOMAIN pcall :
         pcall[t].op = "get" /\ pcall[t].pc = "idle" =>
            LET g == pcall[t].img
            IN  /\ bufs[g.buf].len = pcall[t].width * pcall[t].height
                /\ g.stride = pcall[t].width
                /\ <<g.x0, g.y0, g.x1, g.y1>> = <<0, 0, pcall[t].width, pcall[t].height>>
    /\ \A p \in 1..Len(pools) : \A b \in pools[p].free : bufs[b].len = pools[p].key
    /\ \A p, q \in 1..Len(pools) : pools[p].key = pools[q].key => p = q
    /\ \A k \in DOMAIN cache : pools[cache[k]].key = k

\* Get(2, 2) returned the slice of a padded 1x2 image that a caller had Put.
C9_Witness ==
    \E t \in DOMAIN pcall :
        /\ pcall[t].op = "get" /\ pcall[t].pc = "idle"
        /\ pcall[t].width = 2 /\ pcall[t].height = 2
        /\ pcall[t].img.buf = 1
        /\ \E p \in 1..Len(pools) : pools[p].key = 2 /\ pools[p].free # {}

-----------------------------------------------------------------------------
(* Specification of two runs at once on one Converter: they share its       *)
(* ImagePool and its cacheScaler                                            *)

\* The errors that can happen in the first run.
RunsFaults == {ErrEncode}

\* The first run converts a directory of as many images as there are workers,
\* the second an archive of one image.
InitRuns ==
    /\ InitShared
    /\ \E ina, inb \in PipelineInputs :
         /\ selectReader(ina.path, ina.stat).reader = "readDir"
         /\ selectReader(inb.path, inb.stat).reader = "readZip"
         /\ run = [r \in Runs |->
                   IF r = "a"
                   THEN NewRun("called", ina.path, ina.stat, MaxCPU, RunsFaults, MaxCPU)
                   ELSE NewRun("called", inb.path, inb.stat, 1, {}, MaxCPU)]

SpecRuns == InitRuns /\ [][Next]_vars

\* The slices in the free lists of the pool.
Free == UNION {pools[p].free : p \in 1..Len(pools)}

\* Who can read or write which slice: a convert worker its src from
\* GetFromImage to Put and its dst from Get to the send, the writer the page
\* it received until it has Put it.
Holdings ==
    UNION {
        {<<r, "src", w.index, w.src>> :
            w \in {v \in run[r].cBusy : v.pc \in {"scale", "put"}}}
        \cup {<<r, "dst", w.index, w.dst>> :
            w \in {v \in run[r].cBusy : v.pc \in {"scale", "put", "send"}}}
        \cup (IF run[r].wpc \in {"write", "put"}
              THEN {<<r, "writer", run[r].wpage.index, run[r].wpage.buf>>}
              ELSE {})
        : r \in Runs }

\* The slices a goroutine is about to Put.
PutPending ==
    UNION { {w.src : w \in {v \in run[r].cBusy : v.pc = "put"}}
            \cup (IF run[r].wpc = "put" THEN {run[r].wpage.buf} ELSE {})
            : r \in Runs }

SingleOwner ==
    /\ \A h \in Holdings : h[4] \in 1..Len(bufs) /\ h[4] \notin Free
    /\ \A h1, h2 \in Holdings : h1[4] = h2[4] => h1 = h2
    /\ PutPending \cap Free = {}

\* A slice enters a free list only from the worker that has scaled it into
\* its dst, or from the writer that has encoded it into the archive.
PutAfterUse ==
    \A b \in 1..Len(bufs) :
        b \notin Free /\ b \in Free' =>
            \E r \in Runs :
                \/ \E w \in run[r].cBusy :
                     /\ w.pc = "put" /\ w.src = b
                     /\ bufs[w.dst].pix.entry = bufs[b].pix.entry
                     /\ bufs[w.dst].pix.run = r
                     /\ bufs[w.dst].pix.stage = <<"gray", "scale">>
                \/ /\ run[r].wpc = "put" /\ run[r].wpage.buf = b
                   /\ run[r].zip # <<>>
                   /\ run[r].zip[Len(run[r].zip)].name = NineDigitName(run[r].wpage.index)
                   /\ run[r].zip[Len(run[r].zip)].pix = bufs[b].pix

\* C10: no slice is in a free list while a convert worker or the writer holds
\* it, no slice is Put while already in a free list, no two holders, of one
\* run or of two runs on one Converter, hold the same slice; src is Put only
\* after it was scaled and dst only after the writer encoded it.
C10_SingleOwner == []SingleOwner /\ [][PutAfterUse]_vars

\* A worker of the second run scales into a slice the first run had Put,
\* while every worker of the first run holds slices.
C10_Witness ==
    /\ \E w \in run["b"].cBusy : w.pc = "scale" /\ bufs[w.dst].pix.run = "a"
    /\ Cardinality({w \in run["a"].cBusy : w.pc \in {"scale", "put", "send"}}) = MaxCPU

-----------------------------------------------------------------------------
(* Package imgutil: the functions called on one image.Gray                  *)

\* A Converter nobody calls, on which a function of imgutil is called.
InitIdle ==
    /\ run = [r \in Runs |-> NotCalled]
    /\ params \in Boxes
    /\ cache = <<>> /\ pools = <<>> /\ bufs = <<>>
    /\ zcache = <<>> /\ scalers = <<>>
    /\ zmu = 0 /\ zused = {} /\ zcall = <<>>
    /\ pmu = 0 /\ pcall = <<>>

\* The values of a uint8.
Byte == 0..255

\* The widest image given to Histogram, and the most rows; a row may carry
\* one byte more than its width.
MaxWidth == 1

MaxRows == 3

\* The pixel values of the images given to Histogram.
HistValues == {0, 200}

\* The image.Gray values with Rect (0,0)-(w,h) and len(Pix) = Stride * h.
Grays(widths, heights, pad, values) ==
    UNION { [w : {w}, h : {h}, stride : {st}, pix : [1..(st * h) -> values]] :
              <<w, h, st>> \in {t \in widths \X heights \X (0..100) :
                                   t[1] <= t[3] /\ t[3] <= t[1] + pad} }

\* The zero value of [256]uint.
ZeroHist == [v \in Byte |-> 0]

\* The chunk size m of Histogram.
HistM(height, cpus) == IF height > cpus THEN height \div cpus ELSE 1

\* A Histogram that starts one goroutine less.
HistLimit_Short(height, m) == height \div m

\* The number of goroutines Histogram starts: concurrentIterate(height/m+1, ...).
HistLimit(height, m) == height \div m + 1

\* The indexes of Pix goroutine y reads: from y*Stride*m, Stride*m of them,
\* stopping at len(Pix).
HistIndexes(img, m, y) ==
    {i \in (y * img.stride * m)..(y * img.stride * m + img.stride * m - 1) :
        \A j \in (y * img.stride * m)..i : j # Len(img.pix)}

\* The goroutine reads past the end of Pix: the start of its chunk is beyond it.
HistPanics(img, m, y) == \E i \in HistIndexes(img, m, y) : i > Len(img.pix)

\* tmp of goroutine y when its loop is over.
HistTmp(img, m, y) ==
    LET read == HistIndexes(img, m, y)
    IN  [v \in Byte |-> Cardinality({i \in read : img.pix[i + 1] = v})]

\* Histogram(img) is called: cpus, height, m, and concurrentIterate starts
\* the goroutines, each of which fills its tmp.
HistStart ==
    /\ call.op = "Histogram" /\ call.pc = "called"
    /\ LET m == HistM(call.img.h, call.cpus)
           ys == 0..(HistLimit(call.img.h, m) - 1)
       IN  IF \E y \in ys : HistPanics(call.img, m, y)
           THEN call' = [call EXCEPT !.pc = "panic"]
           ELSE call' = [call EXCEPT !.pc = "merge", !.m = m, !.todo = ys,
                                     !.tmp = [y \in ys |-> HistTmp(call.img, m, y)]]
    /\ UNCHANGED converter

\* mu.Lock(); hist[i] += tmp[i] for every i; mu.Unlock(), by goroutine y.
HistMerge(y) ==
    /\ call.op = "Histogram" /\ call.pc = "merge"
    /\ y \in call.todo
    /\ call' = [call EXCEPT !.hist = [v \in Byte |-> call.hist[v] + call.tmp[y][v]],
                            !.todo = @ \ {y}]
    /\ UNCHANGED converter

\* wg.Wait() of concurrentIterate returns; return hist.
HistReturn ==
    /\ call.op = "Histogram" /\ call.pc = "merge"
    /\ call.todo = {}
    /\ call' = [call EXCEPT !.pc = "returned"]
    /\ UNCHANGED converter

InitHist ==
    /\ InitIdle
    /\ \E img \in Grays(0..MaxWidth, 0..MaxRows, 1, HistValues), cpus \in 1..MaxCPU :
         call = [op |-> "Histogram", pc |-> "called", img |-> img, cpus |-> cpus,
                 m |-> 0, todo |-> {}, tmp |-> <<>>, hist |-> ZeroHist]

NextHist ==
    \/ HistStart
    \/ \E y \in 0..MaxRows : HistMerge(y)
    \/ HistReturn

SpecHist == InitHist /\ [][NextHist]_vars

\* The number of pixels of value v in the image: those of the columns below
\* its width.
PixelsOf(img, v) ==
    Cardinality({xy \in (0..(img.w - 1)) \X (0..(img.h - 1)) :
                    img.pix[xy[2] * img.stride + xy[1] + 1] = v})

\* The sum of the buckets lo..hi.
RECURSIVE SumOf(_, _, _)
SumOf(hist, lo, hi) ==
    IF lo = hi THEN hist[lo]
    ELSE SumOf(hist, lo, (lo + hi) \div 2) + SumOf(hist, (lo + hi) \div 2 + 1, hi)

\* C11: the histogram returned counts, in bucket v, the pixels of value v, and
\* its buckets sum to width * height, whatever the stride, the number of CPUs
\* and the order of the merges.
C11_HistogramCountsPixels ==
    call.op = "Histogram" /\ call.pc = "returned" =>
        /\ \A v \in Byte : call.hist[v] = PixelsOf(call.img, v)
        /\ SumOf(call.hist, 0, 255) = call.img.w * call.img.h

-----------------------------------------------------------------------------
(* AutoContrast *)

\* hist as Histogram returns it: the tallies of its goroutines, merged.
RECURSIVE Merged(_, _, _)
Merged(img, m, y) ==
    IF y < 0 THEN ZeroHist
    ELSE LET hist == Merged(img, m, y - 1)
             tmp == HistTmp(img, m, y)
         IN  [v \in Byte |-> hist[v] + tmp[v]]

Histogram(img, cpus) ==
    Merged(img, HistM(img.h, cpus), HistLimit(img.h, HistM(img.h, cpus)) - 1)

\* cutl := uint(float64(len(img.Pix)) * cutoff / 100), for a whole cutoff.
CutLen(img, cutoff) == IntF(DivF(Len(img.pix) * cutoff, 100))

\* What is left of cutl when the first loop reaches bucket i without a break.
CutLeftLow(hist, cut, i) == cut - (IF i = 0 THEN 0 ELSE SumOf(hist, 0, i - 1))

\* The first loop over hist: buckets are emptied from 0 up until one holds
\* what is left of cutl, which is taken from it.
CutLow(hist, cut) ==
    LET stop == {i \in Byte : hist[i] >= CutLeftLow(hist, cut, i)}
        k == CHOOSE i \in stop : \A j \in stop : i <= j
    IN  IF stop = {} THEN ZeroHist
        ELSE [i \in Byte |-> IF i < k THEN 0
                             ELSE IF i = k THEN hist[k] - CutLeftLow(hist, cut, k)
                             ELSE hist[i]]

\* What is left of cuth when the second loop reaches bucket i without a break.
CutLeftHigh(hist, cut, i) == cut - (IF i = 255 THEN 0 ELSE SumOf(hist, i + 1, 255))

\* A second loop that never empties a bucket.
CutHigh_Kept(hist, cut) == hist

\* The second loop over hist: from 255 down.
CutHigh(hist, cut) ==
    LET stop == {i \in Byte : hist[i] >= CutLeftHigh(hist, cut, i)}
        k == CHOOSE i \in stop : \A j \in stop : i >= j
    IN  IF stop = {} THEN ZeroHist
        ELSE [i \in Byte |-> IF i > k THEN 0
                             ELSE IF i = k THEN hist[k] - CutLeftHigh(hist, cut, k)
                             ELSE hist[i]]

\* lo: the first bucket with hist[i] > 0, or 0.
Lowest(hist) ==
    IF \A i \in Byte : hist[i] = 0 THEN 0
    ELSE CHOOSE i \in Byte : hist[i] > 0 /\ \A j \in 0..(i - 1) : hist[j] = 0

\* hi: the last bucket with hist[i] > 0, or 0.
Highest(hist) ==
    IF \A i \in Byte : hist[i] = 0 THEN 0
    ELSE CHOOSE i \in Byte : hist[i] > 0 /\ \A j \in (i + 1)..255 : hist[j] = 0

\* The lookup table: lut[i] = clamp(float64(i)*scale + offset).
Lut(lo, hi) ==
    LET scale == DivF(255, hi - lo)
        offset == MulF(scale, 0 - lo)
    IN  [i \in Byte |-> clamp(AddF(MulF(scale, i), offset))]

\* applyLookup(img, &lut): every byte of img.Pix is replaced.
applyLookup(pix, lut) == [i \in 1..Len(pix) |-> lut[pix[i]]]

\* hist := Histogram(img), and the test of cutoff.
ACHistogram ==
    /\ call.op = "AutoContrast" /\ call.pc = "called"
    /\ call' = [call EXCEPT !.hist = Histogram(call.img, call.cpus),
                            !.cut = IF call.cutoff > 0
                                    THEN CutLen(call.img, call.cutoff) ELSE 0,
                            !.pc = IF call.cutoff > 0 THEN "cutlow" ELSE "bounds"]
    /\ UNCHANGED converter

\* The loop from bucket 0 up.
ACCutLow ==
    /\ call.op = "AutoContrast" /\ call.pc = "cutlow"
    /\ call' = [call EXCEPT !.hist = CutLow(call.hist, call.cut), !.pc = "cuthigh"]
    /\ UNCHANGED converter

\* The loop from bucket 255 down.
ACCutHigh ==
    /\ call.op = "AutoContrast" /\ call.pc = "cuthigh"
    /\ call' = [call EXCEPT !.hist = CutHigh(call.hist, call.cut), !.pc = "bounds"]
    /\ UNCHANGED converter

\* A call that goes on when hi <= lo, with a table of zeros.
ACBounds_Applied ==
    /\ call.op = "AutoContrast" /\ call.pc = "bounds"
    /\ LET lo == Lowest(call.hist)
           hi == Highest(call.hist)
       IN  call' = [call EXCEPT !.lo = lo, !.hi = hi,
                                !.pix = IF hi <= lo
                                        THEN applyLookup(call.img.pix, ZeroHist) ELSE @,
                                !.pc = IF hi <= lo THEN "returned" ELSE "lut"]
    /\ UNCHANGED converter

\* lo and hi are found; if hi <= lo, return.
ACBounds ==
    /\ call.op = "AutoContrast" /\ call.pc = "bounds"
    /\ LET lo == Lowest(call.hist)
           hi == Highest(call.hist)
       IN  call' = [call EXCEPT !.lo = lo, !.hi = hi,
                                !.pc = IF hi <= lo THEN "returned" ELSE "lut"]
    /\ UNCHANGED converter

\* The lookup table is generated and applied.
ACLookup ==
    /\ call.op = "AutoContrast" /\ call.pc = "lut"
    /\ LET lut == Lut(call.lo, call.hi)
       IN  call' = [call EXCEPT !.lut = lut, !.pix = applyLookup(call.img.pix, lut),
                                !.pc = "returned"]
    /\ UNCHANGED converter

\* The most rows of an image given to AutoContrast.
ToneRows == 3

\* The pixel values of the images given to AutoContrast.
ToneValues == {0, 25, 50}

\* The images given to AutoContrast: one column, or one pixel and a padding byte.
ToneImages == Grays({1}, 1..ToneRows, 0, ToneValues) \cup Grays({1}, {1}, 1, ToneValues)

\* The cutoffs, in percent.
Cutoffs == {0, 25, 50, 100}

InitTone ==
    /\ InitIdle
    /\ \E img \in ToneImages, cutoff \in Cutoffs, cpus \in 1..MaxCPU :
         call = [op |-> "AutoContrast", pc |-> "called", img |-> img, cpus |-> cpus,
                 cutoff |-> cutoff, cut |-> 0, hist |-> ZeroHist, lo |-> 0, hi |-> 0,
                 lut |-> [i \in Byte |-> 0], pix |-> img.pix]

NextTone == ACHistogram \/ ACCutLow \/ ACCutHigh \/ ACBounds \/ ACLookup

SpecTone == InitTone /\ [][NextTone]_vars

\* The values of the pixels of an image: those of the columns below its width.
PixelValues(img) ==
    {img.pix[xy[2] * img.stride + xy[1] + 1] :
        xy \in (0..(img.w - 1)) \X (0..(img.h - 1))}

MinValue(img) == CHOOSE v \in PixelValues(img) : \A u \in PixelValues(img) : v <= u

MaxValue(img) == CHOOSE v \in PixelValues(img) : \A u \in PixelValues(img) : v >= u

\* C12: with cutoff 0 and an image whose least value lo is below its greatest
\* value hi, the lookup table maps lo to 0 and hi to 255 and never decreases,
\* and every pixel p becomes 255*(p-lo)/(hi-lo) rounded to the nearest integer.
C12_StretchBetweenExtremes ==
    /\ call.op = "AutoContrast" /\ call.pc = "returned" /\ call.cutoff = 0
    /\ MinValue(call.img) < MaxValue(call.img)
    => LET lo == MinValue(call.img)
           hi == MaxValue(call.img)
       IN  /\ call.lo = lo /\ call.hi = hi
           /\ call.lut[lo] = 0 /\ call.lut[hi] = 255
           /\ \A i \in 0..254 : call.lut[i] <= call.lut[i + 1]
           /\ \A xy \in (0..(call.img.w - 1)) \X (0..(call.img.h - 1)) :
                LET k == xy[2] * call.img.stride + xy[1] + 1
                IN  call.pix[k] = (2 * 255 * (call.img.pix[k] - lo) + (hi - lo))
                                      \div (2 * (hi - lo))

\* Some bucket is left non-empty.
Remains(hist) == \E v \in Byte : hist[v] > 0

\* C13 as stated: with cutoff > 0 the lowest bucket left non-empty is above
\* the least value of the image and the highest is below its greatest value.
C13_BoundsStrictlyInside ==
    /\ call.op = "AutoContrast" /\ call.pc = "returned" /\ call.cutoff > 0
    /\ Remains(call.hist)
    => /\ Lowest(call.hist) > MinValue(call.img)
       /\ Highest(call.hist) < MaxValue(call.img)

\* The values of the bytes of Pix, padding included, and how many hold v.
ByteValues(img) == {img.pix[i] : i \in 1..Len(img.pix)}

BytesOf(img, v) == Cardinality({i \in 1..Len(img.pix) : img.pix[i] = v})

\* C13, amended: with cutoff > 0 and cut = len(Pix)*cutoff/100 rounded down,
\* the lowest bucket left non-empty is at or above the least value in Pix, and
\* above it exactly when at most cut bytes hold that value; the highest is at
\* or below the greatest value, and below it exactly when at most cut bytes
\* hold that value.
C13_BoundsInside ==
    /\ call.op = "AutoContrast" /\ call.pc = "returned" /\ call.cutoff > 0
    /\ Remains(call.hist)
    => LET least == CHOOSE v \in ByteValues(call.img) :
                        \A u \in ByteValues(call.img) : v <= u
           greatest == CHOOSE v \in ByteValues(call.img) :
                        \A u \in ByteValues(call.img) : v >= u
           cut == (Len(call.img.pix) * call.cutoff) \div 100
       IN  /\ call.lo = Lowest(call.hist) /\ call.hi = Highest(call.hist)
           /\ call.lo >= least /\ call.hi <= greatest
           /\ call.lo > least <=> BytesOf(call.img, least) <= cut
           /\ call.hi < greatest <=> BytesOf(call.img, greatest) <= cut

\* A cutoff of 50% of three pixels took the one brightest pixel away and one
\* of the two darkest.
C13_Witness ==
    /\ call.op = "AutoContrast" /\ call.pc = "returned" /\ call.cutoff = 50
    /\ call.cut = 1
    /\ Remains(call.hist)
    /\ call.lo = MinValue(call.img)
    /\ call.hi < MaxValue(call.img)

----------------------------------------------------------------------------
\* imgutil.AdjustGamma, in place (unnamed/part_004) and returning a copy
\* (imgutil/imgutil.go).

\* A gamma n/d as a float64; d = 0 stands for +Inf.
Gammas == { [n |-> 0, d |-> 1], [n |-> 1, d |-> 2], [n |-> 1, d |-> 1], [n |-> 1, d |-> 0] }

\* gamma == 1
IsOne_Never(gamma) == FALSE

IsOne(gamma) == gamma.n = gamma.d

\* The float64 +Inf.
PosInf == [neg |-> FALSE, inf |-> TRUE]

\* 1/gamma: +Inf for gamma 0, 0 for gamma +Inf.
Inverse(gamma) == IF gamma.n = 0 THEN PosInf ELSE DivF(gamma.d, gamma.n)

\* The product of two mantissas, limb by limb from limb i of n.
RECURSIVE MulBigFrom(_, _, _)
MulBigFrom(m, n, i) ==
    IF i > Len(n) THEN <<>>
    ELSE AddLimbs(ShiftLeft(MulLimbs(m, n[i]), LimbBits * (i - 1)), MulBigFrom(m, n, i + 1))

\* The product of two float64.
MulFF(f, g) ==
    CHOOSE v \in { RoundF(a.neg # b.neg, MulBigFrom(a.m, b.m, 1), a.e + b.e, FALSE) :
                    a \in {f}, b \in {g} } : TRUE

\* math.Pow(x, y) for 0 <= x <= 1 and y one of 0, 1, 2, +Inf: the special cases
\* in the order of the library, and x*x for y = 2.
Pow(x, y) ==
    IF y = ZeroF \/ x = Float(1) THEN Float(1)
    ELSE IF y = Float(1) THEN x
    ELSE IF x = ZeroF THEN ZeroF
    ELSE IF y = PosInf THEN ZeroF
    ELSE MulFF(x, x)

\* The lookup table of a gamma.
GammaLut(gamma) ==
    LET y == Inverse(gamma)
    IN  [i \in Byte |-> clamp(MulF(Pow(DivF(i, 255), y), 255))]

\* image.NewGray(image.Rect(0, 0, w, h)) with the pixels of img put through lut.
applyLookupCopy(img, lut) ==
    [w |-> img.w, h |-> img.h, stride |-> img.w,
     pix |-> [k \in 1..(img.w * img.h) |->
                lut[img.pix[((k - 1) \div img.w) * img.stride + ((k - 1) % img.w) + 1]]]]

\* clone(img) of the copying package: a copy with bounds at the origin and
\* without the dangling bytes.
cloneGrayImage(img) ==
    [w |-> img.w, h |-> img.h, stride |-> img.w,
     pix |-> [k \in 1..(img.w * img.h) |->
                img.pix[((k - 1) \div img.w) * img.stride + ((k - 1) % img.w) + 1]]]

\* AdjustGamma in place with gamma 1 returns at once.
AGReturn ==
    /\ call.op = "AdjustGamma" /\ call.pc = "called"
    /\ IsOne(call.gamma)
    /\ call' = [call EXCEPT !.pc = "returned"]
    /\ UNCHANGED converter

\* AdjustGamma in place with another gamma puts every byte of Pix through the table.
AGLookup ==
    /\ call.op = "AdjustGamma" /\ call.pc = "called"
    /\ ~IsOne(call.gamma)
    /\ LET lut == GammaLut(call.gamma)
       IN  call' = [call EXCEPT !.pix = applyLookup(call.pix, lut),
                                !.writes = Len(call.pix), !.pc = "returned"]
    /\ UNCHANGED converter

\* The copying AdjustGamma with gamma 1 returns a clone.
AGClone ==
    /\ call.op = "AdjustGammaCopy" /\ call.pc = "called"
    /\ IsOne(call.gamma)
    /\ call' = [call EXCEPT !.out = cloneGrayImage(call.img), !.pc = "returned"]
    /\ UNCHANGED converter

\* The copying AdjustGamma with another gamma returns a new image.
AGCopyLookup ==
    /\ call.op = "AdjustGammaCopy" /\ call.pc = "called"
    /\ ~IsOne(call.gamma)
    /\ LET lut == GammaLut(call.gamma)
       IN  call' = [call EXCEPT !.out = applyLookupCopy(call.img, lut),
                                !.pc = "returned"]
    /\ UNCHANGED converter

\* The pixel values of the images given to AdjustGamma.
GammaValues == {0, 100}

\* The images given to AdjustGamma, with and without a dangling byte per row.
GammaImages == Grays(1..MaxWidth, 1..MaxRows, 1, GammaValues)

NoImage == [w |-> 0, h |-> 0, stride |-> 0, pix |-> <<>>]

InitGamma ==
    /\ InitIdle
    /\ \E img \in GammaImages, gamma \in Gammas, op \in {"AdjustGamma", "AdjustGammaCopy"} :
         call = [op |-> op, pc |-> "called", img |-> img, gamma |-> gamma,
                 pix |-> img.pix, writes |-> 0,
                 out |-> NoImage]

NextGamma == AGReturn \/ AGLookup \/ AGClone \/ AGCopyLookup

SpecGamma == InitGamma /\ [][NextGamma]_vars

\* The pixel at (x, y) of an image.
PixAt(img, x, y) == img.pix[y * img.stride + x + 1]

\* C14: AdjustGamma with gamma 1 is the identity. In place it returns without
\* a store to Pix, which holds what it held; the copying variant returns an
\* image of the same size with stride = width whose pixels equal the input's.
C14_GammaOneIdentity ==
    /\ call.op \in {"AdjustGamma", "AdjustGammaCopy"} /\ call.pc = "returned"
    /\ call.gamma = [n |-> 1, d |-> 1]
    => IF call.op = "AdjustGamma"
       THEN call.writes = 0 /\ call.pix = call.img.pix
       ELSE /\ call.out.w = call.img.w /\ call.out.h = call.img.h
            /\ call.out.stride = call.img.w
            /\ Len(call.out.pix) = call.img.w * call.img.h
            /\ \A x \in 0..(call.img.w - 1), y \in 0..(call.img.h - 1) :
                 PixAt(call.out, x, y) = PixAt(call.img, x, y)
            /\ call.pix = call.img.pix

\* A padded image of two rows went through the in-place AdjustGamma with gamma 1.
C14_Witness ==
    /\ call.op = "AdjustGamma" /\ call.pc = "returned"
    /\ call.gamma = [n |-> 1, d |-> 1]
    /\ call.img.h = 2 /\ call.img.stride > call.img.w
    /\ call.img.pix = <<0, 100, 100, 0>>

----------------------------------------------------------------------------
\* imgutil.Grayscale (imgutil/grayscale.go).

\* The low 32 bits of m: a uint32.
Wrap32(m) ==
    Trim([i \in 1..3 |-> IF i < 3 THEN LimbAt(m, i)
                         ELSE LimbAt(m, 3) % 2^(32 - 2 * LimbBits)])

\* a * k and a + b in uint32, a and b being limbs and k a small number.
Mul32(a, k) == Wrap32(MulLimbs(a, k))

Add32(a, b) == Wrap32(AddLimbs(a, b))

\* m \div d for a small d: long division from limb i down, r being the rest so far.
RECURSIVE QuoSmallFrom(_, _, _, _)
QuoSmallFrom(m, d, i, r) ==
    IF i = 0 THEN <<>>
    ELSE QuoSmallFrom(m, d, i - 1, (r * Limb + m[i]) % d) \o <<(r * Limb + m[i]) \div d>>

QuoSmall(m, d) == Trim(QuoSmallFrom(m, d, Len(m), 0))

\* Terms whose rounding term is 1<<16.
GrayTerms_Round16(r, g, b) == << <<r, 19595>>, <<g, 38470>>, <<b, 7471>>, <<1, 2^16>> >>

\* The terms of 19595*r + 38470*g + 7471*b + 1<<15, in their order.
GrayTerms(r, g, b) == << <<r, 19595>>, <<g, 38470>>, <<b, 7471>>, <<1, 2^15>> >>

\* The sum of the first n terms in uint32, each product and each sum wrapping.
RECURSIVE GraySum(_, _)
GraySum(terms, n) ==
    IF n = 0 THEN <<>>
    ELSE Add32(GraySum(terms, n - 1), Mul32(Nat2Limbs(terms[n][1]), terms[n][2]))

\* t := (19595*r + 38470*g + 7471*b + 1<<15) >> 24 in uint32; uint8(t).
rgbToGray(r, g, b) ==
    LET t == GraySum(GrayTerms(r, g, b), 4)
    IN  Limbs2Nat(ShiftRight(t, 24)) % 256

\* r |= r << 8 of a byte r.
Expand_Low(r) == r

Expand(r) == r + 256 * r

\* uint32(s[0])<<8 | uint32(s[1]) of the two bytes from index i (counted from 0).
Word(pix, i) == 256 * pix[i + 1] + pix[i + 2]

\* r * a in uint32.
Product(r, a) == Mul32(Nat2Limbs(r), a)

\* r = r * a / 0xffff in uint32.
Premultiply(r, a) == Limbs2Nat(QuoSmall(Product(r, a), 65535))

\* The body of the loops of rgbaToGray, rgba64ToGray, nrgbaToGray and
\* nrgba64ToGray: the gray value of the pixel whose bytes start at index i.
rgbaToGray(pix, i) ==
    rgbToGray(Expand(pix[i + 1]), Expand(pix[i + 2]), Expand(pix[i + 3]))

rgba64ToGray(pix, i) ==
    rgbToGray(Word(pix, i), Word(pix, i + 2), Word(pix, i + 4))

nrgbaToGray(pix, i) ==
    LET a == Expand(pix[i + 4])
    IN  rgbToGray(Premultiply(Expand(pix[i + 1]), a), Premultiply(Expand(pix[i + 2]), a),
                  Premultiply(Expand(pix[i + 3]), a))

nrgba64ToGray(pix, i) ==
    LET a == Word(pix, i + 6)
    IN  rgbToGray(Premultiply(Word(pix, i), a), Premultiply(Word(pix, i + 2), a),
                  Premultiply(Word(pix, i + 4), a))

\* The image types with a conversion of their own, and their bytes per pixel.
Kinds == {"Gray", "RGBA", "RGBA64", "NRGBA", "NRGBA64"}

BytesPerPixel(kind) ==
    CASE kind = "Gray" -> 1
      [] kind \in {"RGBA", "NRGBA"} -> 4
      [] kind \in {"RGBA64", "NRGBA64"} -> 8

\* Row y of dst as goroutine y of concurrentIterate writes it: x runs up to dst.Stride.
GrayRow(kind, dstpix, dst, srcpix, src, y) ==
    [k \in 1..Len(dstpix) |->
        IF (k - 1) \div dst.stride # y THEN dstpix[k]
        ELSE LET x == (k - 1) % dst.stride
                 i == y * src.stride + x * BytesPerPixel(kind)
             IN  CASE kind = "RGBA" -> rgbaToGray(srcpix, i)
                   [] kind = "RGBA64" -> rgba64ToGray(srcpix, i)
                   [] kind = "NRGBA" -> nrgbaToGray(srcpix, i)
                   [] kind = "NRGBA64" -> nrgba64ToGray(srcpix, i)]

\* copy(dst, src): as many bytes as the shorter of the two holds.
CopyBytes(dst, src) ==
    [k \in 1..Len(dst) |-> IF k <= Len(src) THEN src[k] ELSE dst[k]]

\* clone(dst, src): one copy when the strides agree, one copy per row otherwise.
clone_Whole(dstpix, dst, srcpix, src) == CopyBytes(dstpix, srcpix)

clone(dstpix, dst, srcpix, src) ==
    IF dst.stride = src.stride
    THEN CopyBytes(dstpix, srcpix)
    ELSE [k \in 1..Len(dstpix) |->
            LET i == (k - 1) \div dst.stride
            IN  IF i < src.h THEN srcpix[i * src.stride + ((k - 1) % dst.stride) + 1]
                ELSE dstpix[k]]

\* Grayscale(img): b := img.Bounds(); dst := image.NewGray(image.Rect(0, 0, b.Dx(), b.Dy())):
\* a zeroed pixel array of its own.
GSNewGray ==
    /\ call.op = "Grayscale" /\ call.pc = "called"
    /\ call' = [call EXCEPT
                  !.heap = Append(@, [k \in 1..(call.src.w * call.src.h) |-> 0]),
                  !.dst = [min |-> 0, w |-> call.src.w, h |-> call.src.h,
                           stride |-> call.src.w, buf |-> Len(call.heap) + 1],
                  !.todo = IF call.src.kind = "Gray" THEN {} ELSE 0..(call.src.h - 1),
                  !.pc = "grayscale"]
    /\ UNCHANGED converter

\* case *image.Gray: clone(dst, i); return dst.
GSClone ==
    /\ call.op = "Grayscale" /\ call.pc = "grayscale"
    /\ call.src.kind = "Gray"
    /\ LET pix == clone(call.heap[call.dst.buf], call.dst, call.heap[call.src.buf], call.src)
       IN  call' = [call EXCEPT !.heap[call.dst.buf] = pix, !.out = call.dst,
                                !.pc = "returned"]
    /\ UNCHANGED converter

\* Goroutine y of the concurrentIterate of a conversion.
GSRow(y) ==
    /\ call.op = "Grayscale" /\ call.pc = "grayscale"
    /\ y \in call.todo
    /\ LET pix == GrayRow(call.src.kind, call.heap[call.dst.buf], call.dst,
                          call.heap[call.src.buf], call.src, y)
       IN  call' = [call EXCEPT !.heap[call.dst.buf] = pix, !.todo = @ \ {y}]
    /\ UNCHANGED converter

\* wg.Wait() of concurrentIterate returns; return dst.
GSReturn ==
    /\ call.op = "Grayscale" /\ call.pc = "grayscale"
    /\ call.src.kind # "Gray" /\ call.todo = {}
    /\ call' = [call EXCEPT !.out = call.dst, !.pc = "returned"]
    /\ UNCHANGED converter

\* The most rows of an image given to Grayscale.
GrayRows == 2

\* The colours of the pixels of the images given to Grayscale, as the bytes of a pixel.
Palette(kind) ==
    CASE kind = "Gray" -> {<<0>>, <<51>>, <<204>>}
      [] kind = "RGBA" -> {<<204, 0, 0, 1>>, <<170, 51, 187, 255>>, <<255, 255, 255, 255>>}
      [] kind = "NRGBA" -> {<<204, 0, 0, 1>>, <<170, 51, 187, 128>>, <<255, 255, 255, 255>>}
      [] kind = "RGBA64" -> {<<204, 0, 0, 1, 0, 204, 0, 2>>,
                             <<170, 51, 187, 255, 170, 51, 187, 255>>,
                             <<255, 255, 255, 255, 255, 255, 255, 255>>}
      [] kind = "NRGBA64" -> {<<204, 0, 0, 1, 0, 204, 0, 2>>,
                              <<170, 51, 187, 255, 170, 51, 128, 7>>,
                              <<255, 255, 255, 255, 255, 255, 255, 255>>}

\* Pix of an image of w by h pixels of the colours c, each row followed by pad bytes of value 238.
PixOf(kind, w, h, pad, c) ==
    LET bpp == BytesPerPixel(kind)
        stride == w * bpp + pad
    IN  [k \in 1..(stride * h) |->
            LET y == (k - 1) \div stride
                o == (k - 1) % stride
            IN  IF o < w * bpp THEN c[y * w + (o \div bpp) + 1][(o % bpp) + 1] ELSE 238]

\* The images given to Grayscale: bounds from (min, min), with or without padding.
Sources ==
    UNION { { [kind |-> t[1], min |-> t[5], w |-> t[2], h |-> t[3],
               stride |-> t[2] * BytesPerPixel(t[1]) + t[4], buf |-> 1,
               pix |-> PixOf(t[1], t[2], t[3], t[4], c)] :
                 c \in [1..(t[2] * t[3]) -> Palette(t[1])] } :
            t \in Kinds \X (1..MaxWidth) \X (1..GrayRows) \X {0, 1} \X {0 - 1, 0} }

NoHeader == [min |-> 0, w |-> 0, h |-> 0, stride |-> 0, buf |-> 0]

InitGray ==
    /\ InitIdle
    /\ \E src \in Sources :
         call = [op |-> "Grayscale", pc |-> "called",
                 src |-> [kind |-> src.kind, min |-> src.min, w |-> src.w, h |-> src.h,
                          stride |-> src.stride, buf |-> src.buf],
                 pix |-> src.pix, heap |-> <<src.pix>>, dst |-> NoHeader, todo |-> {},
                 out |-> NoHeader]

NextGray == GSNewGray \/ GSClone \/ (\E y \in 0..(GrayRows - 1) : GSRow(y)) \/ GSReturn

SpecGray == InitGray /\ [][NextGray]_vars

\* The reference conversion, in exact arithmetic: the 16-bit alpha-premultiplied
\* channels of the pixel at (x, y) of the image Grayscale was given.
RefChannels(x, y) ==
    LET i == y * call.src.stride + x * BytesPerPixel(call.src.kind)
        b == [j \in 1..8 |-> IF i + j <= Len(call.pix) THEN call.pix[i + j] ELSE 0]
        times(v, a) == Limbs2Nat(QuoSmall(MulLimbs(Nat2Limbs(v), a), 65535))
    IN  CASE call.src.kind = "RGBA" -> <<257 * b[1], 257 * b[2], 257 * b[3]>>
          [] call.src.kind = "NRGBA" ->
               <<(257 * b[1] * b[4]) \div 255, (257 * b[2] * b[4]) \div 255,
                 (257 * b[3] * b[4]) \div 255>>
          [] call.src.kind = "RGBA64" ->
               <<256 * b[1] + b[2], 256 * b[3] + b[4], 256 * b[5] + b[6]>>
          [] call.src.kind = "NRGBA64" ->
               <<times(256 * b[1] + b[2], 256 * b[7] + b[8]),
                 times(256 * b[3] + b[4], 256 * b[7] + b[8]),
                 times(256 * b[5] + b[6], 256 * b[7] + b[8])>>

\* (19595*r + 38470*g + 7471*b + 2^15) >> 24 of unbounded integers.
RefGray(c) ==
    Limbs2Nat(ShiftRight(AddLimbs(AddLimbs(MulLimbs(Nat2Limbs(c[1]), 19595),
                                           MulLimbs(Nat2Limbs(c[2]), 38470)),
                                  AddLimbs(MulLimbs(Nat2Limbs(c[3]), 7471),
                                           Nat2Limbs(2^15))), 24))

\* The result of Grayscale has bounds (0,0)-(w,h) and stride w, w by h being
\* the size of the source.
Normalized ==
    /\ call.out.min = 0 /\ call.out.w = call.src.w /\ call.out.h = call.src.h
    /\ call.out.stride = call.src.w
    /\ Len(call.heap[call.out.buf]) = call.src.w * call.src.h

\* C15: for an RGBA, RGBA64, NRGBA or NRGBA64 source, every pixel of the
\* result of Grayscale is exactly the reference conversion of the source's
\* pixel, and the result has bounds (0,0)-(width,height) and stride = width.
C15_MatchesReference ==
    /\ call.op = "Grayscale" /\ call.pc = "returned" /\ call.src.kind # "Gray"
    => /\ Normalized
       /\ \A x \in 0..(call.src.w - 1), y \in 0..(call.src.h - 1) :
            call.heap[call.out.buf][y * call.src.w + x + 1] = RefGray(RefChannels(x, y))

\* A padded NRGBA image of two rows with a half transparent pixel was converted.
C15_Witness ==
    /\ call.op = "Grayscale" /\ call.pc = "returned" /\ call.src.kind = "NRGBA"
    /\ call.src.h = 2 /\ call.src.stride > 4 * call.src.w
    /\ call.pix[4] = 128
    /\ call.heap[call.out.buf][1] > 0

\* C16: the result of Grayscale of a gray image is another image with a pixel
\* array of its own; result.Pix[y*width + x] = src.Pix[y*src.Stride + x] for
\* every pixel, whatever the stride of the source; the source is as it was.
C16_GrayCopied ==
    /\ call.op = "Grayscale" /\ call.pc = "returned" /\ call.src.kind = "Gray"
    => /\ Normalized
       /\ call.out.buf # call.src.buf
       /\ \A x \in 0..(call.src.w - 1), y \in 0..(call.src.h - 1) :
            call.heap[call.out.buf][y * call.src.w + x + 1]
              = call.pix[y * call.src.stride + x + 1]
       /\ call.heap[call.src.buf] = call.pix

\* A gray image of two rows, each with a dangling byte, was copied.
C16_Witness ==
    /\ call.op = "Grayscale" /\ call.pc = "returned" /\ call.src.kind = "Gray"
    /\ call.src.h = 2 /\ call.src.stride > call.src.w
    /\ call.pix = <<51, 238, 204, 238>>

----------------------------------------------------------------------------
\* The target size of a page: imgutil.FitRect as Converter.convert calls it.

\* The longest side of an image and of a bounding box.
MaxSide == 4

\* Sides of images, and widths and heights of bounding boxes: small ones, and
\* larger ones where scale*height falls halfway between two integers.
Sides == (1..MaxSide) \cup {25, 50}

BoxSides == ((0 - 1)..MaxSide) \cup {255}

\* r := imgutil.FitRect(src.Bounds(), c.params.Width, c.params.Height)
FitCall ==
    /\ call.op = "FitRect" /\ call.pc = "called"
    /\ call' = [call EXCEPT !.rect = FitRect(call.w, call.h, call.x, call.y),
                            !.pc = "returned"]
    /\ UNCHANGED converter

InitFit ==
    /\ InitIdle
    /\ \E w \in Sides, h \in Sides, x \in BoxSides, y \in BoxSides :
         call = [op |-> "FitRect", pc |-> "called", w |-> w, h |-> h, x |-> x, y |-> y,
                 rect |-> <<0, 0>>]

NextFit == FitCall

SpecFit == InitFit /\ [][NextFit]_vars

\* C17: for an image and a bounding box x by y of positive sizes, the target
\* is at most x wide and y high, one of its sides is the box's, and each side
\* is within one half of the image's side times the scale min(x/w, y/h).
C17_FitsInBox ==
    /\ call.op = "FitRect" /\ call.pc = "returned" /\ call.x > 0 /\ call.y > 0
    => LET w == call.w  h == call.h  x == call.x  y == call.y
           rw == call.rect[1]  rh == call.rect[2]
       IN  /\ rw <= x /\ rh <= y
           /\ rw = x \/ rh = y
           /\ IF x * h <= y * w
              THEN 2 * Abs(rw * w - x * w) <= w /\ 2 * Abs(rh * w - x * h) <= w
              ELSE 2 * Abs(rw * h - y * w) <= h /\ 2 * Abs(rh * h - y * h) <= h

\* An image of 50 by 25 was fitted into a box of 255 by 255: the height
\* 127.5 came out as 127.
C17_Witness ==
    /\ call.op = "FitRect" /\ call.pc = "returned"
    /\ call.w = 50 /\ call.h = 25 /\ call.x = 255 /\ call.y = 255
    /\ call.rect = <<255, 127>>

\* C18: a width or height of the bounding box that is <= 0 counts as the
\* image's width or height, and the target of an image that is not empty has
\* positive sides.
C18_BoxDefaultsToSource ==
    /\ call.op = "FitRect" /\ call.pc = "returned" /\ (call.x <= 0 \/ call.y <= 0)
    => /\ call.rect = FitRect(call.w, call.h,
                              IF call.x <= 0 THEN call.w ELSE call.x,
                              IF call.y <= 0 THEN call.h ELSE call.y)
       /\ call.rect[1] > 0 /\ call.rect[2] > 0

----------------------------------------------------------------------------
\* kernelScaler.Scale (imgutil/scale.go): calls of Scale on one Scaler built
\* by Kernel.NewScaler, with images of the sizes it was built for and of others.

\* The number of calls of Scale on the Scaler.
KernelCalls == 2

\* The sizes (width, height) of the destination and of the source images.
DstSizes == { <<2, 1>>, <<1, 1>> }

SrcSizes == { <<4, 2>>, <<2, 1>> }

\* One more bit of the quotient of two mantissas: p holds the bits q so far
\* and what is left of the dividend, rest < d.
QuoStep(p, d) ==
    LET r2 == ShiftLeft(p.rest, 1)
    IN  IF LessLimbs(r2, d)
        THEN [q |-> ShiftLeft(p.q, 1), rest |-> r2]
        ELSE [q |-> AddLimbs(ShiftLeft(p.q, 1), <<1>>), rest |-> SubLimbs(r2, d)]

\* n more bits of the quotient, one half of them after the other.
RECURSIVE QuoBits(_, _, _)
QuoBits(p, d, n) ==
    IF n = 0 THEN p
    ELSE IF n = 1 THEN QuoStep(p, d)
    ELSE CHOOSE s \in { QuoBits(h, d, n - n \div 2) : h \in {QuoBits(p, d, n \div 2)} } : TRUE

\* The bits computed after the point of a quotient of two float64.
QuoBitsKept == Mantissa + 3

\* The quotient of two float64 that are not zero.
Quo(f, g) ==
    LET one == ~LessLimbs(f.m, g.m)
        first == [q |-> IF one THEN <<1>> ELSE <<>>,
                  rest |-> IF one THEN SubLimbs(f.m, g.m) ELSE f.m]
    IN  CHOOSE v \in { RoundF(f.neg # g.neg, p.q, f.e - g.e - QuoBitsKept, p.rest # <<>>) :
                          p \in {QuoBits(first, g.m, QuoBitsKept)} } : TRUE

\* f / g for two float64, g finite; +Inf or -Inf for g = 0 and f # 0.
QuoFF(f, g) ==
    CHOOSE v \in { IF b.m = <<>> THEN [neg |-> a.neg, inf |-> TRUE]
                    ELSE IF a.m = <<>> THEN ZeroF
                    ELSE Quo(a, b) : a \in {f}, b \in {g} } : TRUE

\* f has a fraction.
Fraction(f) == f.e < 0 /\ ~LowZero(f.m, 0 - f.e)

\* int32(math.Floor(f)) and int32(math.Ceil(f)), for f within int32.
FloorF(f) ==
    CHOOSE v \in { IF a.neg /\ Fraction(a) THEN IntF(a) - 1 ELSE IntF(a) : a \in {f} } : TRUE

CeilF(f) ==
    CHOOSE v \in { IF ~a.neg /\ Fraction(a) THEN IntF(a) + 1 ELSE IntF(a) : a \in {f} } : TRUE

\* abs(f)
abs(f) == [f EXCEPT !.neg = FALSE]

\* f - g
SubF(f, g) == AddF(f, NegF(g))

\* CatmullRom: the kernel of the converter's scaler, of support 2.
Support == 2

Weight(t) ==
    IF LessF(t, Float(1))
    THEN AddF(MulFF(MulFF(SubF(MulFF(DivF(3, 2), t), DivF(5, 2)), t), t), Float(1))
    ELSE AddF(MulFF(SubF(MulFF(AddF(MulFF(DivF(0 - 1, 2), t), DivF(5, 2)), t), Float(4)), t),
              Float(2))

\* q.At(t)
At(t) == CHOOSE v \in { Weight(a) : a \in {t} } : TRUE

\* scale := float64(sw) / float64(dw)
Scale(dw, sw) == DivF(sw, dw)

\* halfWidth and kernelArgScale: the support is broadened when shrinking.
HalfWidth(scale) ==
    IF LessF(Float(1), scale) THEN MulFF(Float(Support), scale) ELSE Float(Support)

KernelArgScale(scale) ==
    IF LessF(Float(1), scale) THEN QuoFF(Float(1), scale) ELSE Float(1)

\* center := (float64(x)+0.5)*scale - 0.5
Center(x, scale) == SubF(MulFF(AddF(Float(x), DivF(1, 2)), scale), DivF(1, 2))

\* i := int32(math.Floor(center - halfWidth)); if i < 0 { i = 0 }
Lower(center, halfWidth) ==
    CHOOSE v \in { IF i < 0 THEN 0 ELSE i : i \in {FloorF(SubF(center, halfWidth))} } : TRUE

\* j := int32(math.Ceil(center + halfWidth)); if j > sw { j = sw; if j < i { j = i } }
Upper_Unclamped(center, halfWidth, sw, i) == CeilF(AddF(center, halfWidth))

Upper(center, halfWidth, sw, i) ==
    CHOOSE v \in { IF j > sw THEN (IF sw < i THEN i ELSE sw) ELSE j :
                    j \in {CeilF(AddF(center, halfWidth))} } : TRUE

\* t := abs((center - float64(coord)) * kernelArgScale) and the contribution
\* of the source coordinate coord; a weight of zero stands for none.
Contrib(center, coord, kernelArgScale) ==
    CHOOSE c \in { IF ~LessF(t, Float(Support))
                    THEN [coord |-> coord, weight |-> ZeroF]
                    ELSE [coord |-> coord, weight |-> At(t)] :
                    t \in {abs(MulFF(SubF(center, Float(coord)), kernelArgScale))} } : TRUE

\* The contributions of the source coordinates from i to j-1: those whose t
\* is within the support and whose weight is not zero.
Weighed(center, i, j, kernelArgScale) ==
    SelectSeq([n \in 1..(j - i) |-> Contrib(center, i + n - 1, kernelArgScale)] @@ <<>>,
              LAMBDA c : c.weight.m # <<>>)

\* The contributions to the destination of the given center: i, then j, then
\* the weights.
Spanned(center, i, halfWidth, kernelArgScale, sw) ==
    CHOOSE cs \in { Weighed(center, i, j, kernelArgScale) :
                     j \in {Upper(center, halfWidth, sw, i)} } : TRUE

Centered(center, halfWidth, kernelArgScale, sw) ==
    CHOOSE cs \in { Spanned(center, i, halfWidth, kernelArgScale, sw) :
                     i \in {Lower(center, halfWidth)} } : TRUE

\* The contributions to the destination column or row x.
Contribs(x, scale, halfWidth, kernelArgScale, sw) ==
    CHOOSE cs \in { Centered(center, halfWidth, kernelArgScale, sw) :
                     center \in {Center(x, scale)} } : TRUE

\* totalWeight of the first n of some contributions.
RECURSIVE TotalWeight(_, _)
TotalWeight(cs, n) ==
    IF n = 0 THEN ZeroF ELSE AddF(TotalWeight(cs, n - 1), cs[n].weight)

\* The number of contributions to the destinations before x.
RECURSIVE Before(_, _)
Before(owned, x) == IF x = 0 THEN 0 ELSE Before(owned, x - 1) + Len(owned[x])

\* The contributions of the destinations up to x, one after the other.
RECURSIVE Joined(_, _)
Joined(owned, x) == IF x = 0 THEN <<>> ELSE Joined(owned, x - 1) \o owned[x]

\* The contributions to each destination column or row at the given scale.
Scaled(dw, sw, scale) ==
    CHOOSE o \in { [x \in 1..dw |-> Contribs(x - 1, scale, halfWidth, kernelArgScale, sw)]
                   @@ <<>> :
                   halfWidth \in {HalfWidth(scale)},
                   kernelArgScale \in {KernelArgScale(scale)} } : TRUE

\* The contributions to each destination column or row; none, and no use of
\* scale, when there is no destination.
Owned(dw, sw) ==
    IF dw = 0 THEN <<>>
    ELSE CHOOSE o \in { Scaled(dw, sw, scale) : scale \in {Scale(dw, sw)} } : TRUE

\* sources[x+1] for the contributions owned[x+1] of the destination x.
Source(owned, x) ==
    CHOOSE s \in { [i |-> Before(owned, x - 1),
                    j |-> Before(owned, x),
                    invTotalWeight |-> inv,
                    invTotalWeightFFFF |->
                        IF "inf" \in DOMAIN inv THEN inv ELSE QuoFF(inv, Float(65535))] :
                    inv \in {QuoFF(Float(1), TotalWeight(owned[x], Len(owned[x])))} } : TRUE

\* sources and contribs: the contributions one destination after the other.
Laid(owned) ==
    [sources |-> [x \in DOMAIN owned |-> Source(owned, x)] @@ <<>>,
     contribs |-> Joined(owned, Len(owned))]

\* newDistrib(q, dw, sw) for the CatmullRom kernel.
newDistrib(dw, sw) == CHOOSE d \in { Laid(owned) : owned \in {Owned(dw, sw)} } : TRUE

\* q.newScaler(dw, dh, sw, sh, usePool): pool.New is set when usePool holds.
newScaler(dw, dh, sw, sh, usePool) ==
    [dw |-> dw, dh |-> dh, sw |-> sw, sh |-> sh,
     horizontal |-> newDistrib(dw, sw), vertical |-> newDistrib(dh, sh),
     usePool |-> usePool]

\* z.makeTmpBuf(): a slice of dw*sh float64.
makeTmpBuf(z) == z.dw * z.sh

\* The test at the head of kernelScaler.Scale.
Mismatch_Unchecked(z, dst, src) == FALSE

Mismatch(z, dst, src) ==
    z.dw # dst[1] \/ z.dh # dst[2] \/ z.sw # src[1] \/ z.sh # src[2]

\* What z.scaleX(tmp, src); z.scaleY(dst, tmp) leave in dst: the source
\* resampled along the distributions of z through tmp.
Resampled(z, tmp, src) ==
    [horizontal |-> z.horizontal, vertical |-> z.vertical, tmp |-> tmp, src |-> src]

Frame(z) == [z |-> z, pc |-> "check", tmp |-> 0, pooled |-> FALSE]

Top == call.stack[Len(call.stack)]

SetTop(f) == [call.stack EXCEPT ![Len(call.stack)] = f]

\* scaler.Scale(dst, src) is called on the Scaler.
KSCall ==
    /\ call.op = "kernelScaler.Scale" /\ call.stack = <<>>
    /\ call.n < KernelCalls
    /\ \E dst \in DstSizes, src \in SrcSizes :
         call' = [call EXCEPT !.n = @ + 1, !.dst = dst, !.src = src,
                              !.stack = <<Frame(call.z)>>, !.depth = 1,
                              !.pool0 = call.pool, !.gets = 0,
                              !.result = <<>>, !.by = <<>>]
    /\ UNCHANGED converter

\* if z.dw != int32(dst.Rect.Dx()) || ... { z.kernel.Scale(dst, src); return }:
\* Kernel.Scale builds a Scaler without a pool for the sizes of dst and src
\* and calls its Scale.
KSCheck ==
    /\ call.op = "kernelScaler.Scale" /\ call.stack # <<>>
    /\ Top.pc = "check"
    /\ IF Mismatch(Top.z, call.dst, call.src)
       THEN call' = [call EXCEPT
                       !.stack = Append(SetTop([Top EXCEPT !.pc = "return"]),
                                        Frame(newScaler(call.dst[1], call.dst[2],
                                                        call.src[1], call.src[2], FALSE))),
                       !.depth = IF Len(call.stack) + 1 > @ THEN Len(call.stack) + 1 ELSE @]
       ELSE call' = [call EXCEPT !.stack = SetTop([Top EXCEPT !.pc = "tmp"])]
    /\ UNCHANGED converter

\* tmpp := z.pool.Get().(*[]float64): a buffer put back earlier, or a new one.
KSPoolGet ==
    /\ call.op = "kernelScaler.Scale" /\ call.stack # <<>>
    /\ Top.pc = "tmp" /\ Top.z.usePool
    /\ \/ /\ call.pool # <<>>
          /\ call' = [call EXCEPT
                        !.stack = SetTop([Top EXCEPT !.pc = "scale", !.tmp = Head(call.pool),
                                                     !.pooled = TRUE]),
                        !.pool = Tail(@), !.gets = @ + 1]
       \/ /\ call' = [call EXCEPT
                        !.stack = SetTop([Top EXCEPT !.pc = "scale", !.tmp = makeTmpBuf(Top.z),
                                                     !.pooled = TRUE]),
                        !.gets = @ + 1]
    /\ UNCHANGED converter

\* tmp = z.makeTmpBuf()
KSMakeTmp ==
    /\ call.op = "kernelScaler.Scale" /\ call.stack # <<>>
    /\ Top.pc = "tmp" /\ ~Top.z.usePool
    /\ call' = [call EXCEPT !.stack = SetTop([Top EXCEPT !.pc = "scale",
                                                         !.tmp = makeTmpBuf(Top.z)])]
    /\ UNCHANGED converter

\* z.scaleX(tmp, src); z.scaleY(dst, tmp)
KSScale ==
    /\ call.op = "kernelScaler.Scale" /\ call.stack # <<>>
    /\ Top.pc = "scale"
    /\ call' = [call EXCEPT !.result = Resampled(Top.z, Top.tmp, call.src),
                            !.by = Append(@, Top.z),
                            !.stack = SetTop([Top EXCEPT !.pc = "return"])]
    /\ UNCHANGED converter

\* Scale returns; the deferred z.pool.Put(tmpp) runs.
KSReturn ==
    /\ call.op = "kernelScaler.Scale" /\ call.stack # <<>>
    /\ Top.pc = "return"
    /\ call' = [call EXCEPT !.stack = SubSeq(@, 1, Len(@) - 1),
                            !.pool = IF Top.pooled THEN Append(@, Top.tmp) ELSE @]
    /\ UNCHANGED converter

InitKernel ==
    /\ InitIdle
    /\ \E k \in ScaleKeys :
         call = [op |-> "kernelScaler.Scale", n |-> 0,
                 z |-> newScaler(k[1], k[2], k[3], k[4], TRUE),
                 pool |-> <<>>, pool0 |-> <<>>, gets |-> 0,
                 dst |-> <<0, 0>>, src |-> <<0, 0>>, stack |-> <<>>, depth |-> 0,
                 result |-> <<>>, by |-> <<>>]

NextKernel == KSCall \/ KSCheck \/ KSPoolGet \/ KSMakeTmp \/ KSScale \/ KSReturn

SpecKernel == InitKernel /\ [][NextKernel]_vars

\* A call of Scale on the Scaler has returned, and the images were not of the
\* sizes the Scaler was built for.
FellBack ==
    /\ call.op = "kernelScaler.Scale" /\ call.n > 0 /\ call.stack = <<>>
    /\ (<<call.z.dw, call.z.dh>> # call.dst \/ <<call.z.sw, call.z.sh>> # call.src)

\* C19: a call of Scale on a Scaler built for other sizes than those of dst and
\* src takes nothing from the Scaler's pool and does not resample along its
\* distributions: dst holds what Kernel.Scale(dst, src) leaves, computed once
\* by a Scaler built for the sizes of dst and src with a buffer of its own,
\* and Scale is never more than one call deep inside Scale.
C19_FallsBackOnce ==
    /\ call.op = "kernelScaler.Scale" => call.depth <= 2 /\ Len(call.stack) <= 2
    /\ FellBack
       => LET one == newScaler(call.dst[1], call.dst[2], call.src[1], call.src[2], FALSE)
          IN  /\ call.depth = 2
              /\ call.gets = 0 /\ call.pool = call.pool0
              /\ call.by = <<one>>
              /\ call.result = Resampled(one, makeTmpBuf(one), call.src)

\* The second call on a Scaler built for 2x1 from 4x2, whose pool holds the
\* buffer of the first call, scaled a 2x1 image to 1x1.
C19_Witness ==
    /\ FellBack
    /\ call.n = 2 /\ call.pool # <<>>
    /\ call.z.sw = 4 /\ call.src = <<2, 1>> /\ call.dst = <<1, 1>>

----------------------------------------------------------------------------
\* Cancellation and the channel operations of the stages of a run.

\* A stage of run r waits in a send.
ReaderSends(r) == run[r].fpc = "send"

DecodeSends(r) == \E w \in run[r].dBusy : w.pc = "send"

ConvertSends(r) == \E w \in run[r].cBusy : w.pc = "send"

\* A stage of run r waits in a receive.
DecodeReceives(r) == run[r].dIdle > 0

ConvertReceives(r) == run[r].cIdle > 0

WriterReceives(r) == run[r].wpc = "recv"

\* Once the context is cancelled, a stage waiting in a send can leave it.
SendsSelect(r) ==
    ctx0Done(r) =>
       /\ ReaderSends(r) => ENABLED FCancel(r)
       /\ DecodeSends(r) => ENABLED DCancel(r)
       /\ ConvertSends(r) => ENABLED CCancel(r)

\* C20 as stated: in every stage, every blocking send and every blocking
\* receive goes with a check of the cancellation signal, so that once the
\* context is cancelled a stage waiting in a send or in a receive can go on,
\* whatever its peers do.
C20_EveryWaitSelects ==
    \A r \in Runs :
       /\ SendsSelect(r)
       /\ ctx0Done(r) =>
            /\ DecodeReceives(r) => ENABLED (DExit(r) \/ FSend(r))
            /\ ConvertReceives(r) => ENABLED (CExit(r) \/ DSend(r))
            /\ WriterReceives(r) => ENABLED (WExit(r) \/ CSend(r))

\* C20, amended: every blocking send goes with a check of the cancellation
\* signal, so that a stage waiting in a send can leave once the context is
\* cancelled.  A receive does not: cancelled or not, a stage waiting in a
\* receive goes on exactly when a peer sends or the channel is closed, and a
\* channel is closed exactly when the stage that sends on it has returned.
C20_SendsSelect ==
    \A r \in Runs :
       /\ SendsSelect(r)
       /\ DecodeReceives(r) =>
            ((ENABLED (DExit(r) \/ FSend(r))) <=> (run[r].rawClosed \/ ReaderSends(r)))
       /\ ConvertReceives(r) =>
            ((ENABLED (CExit(r) \/ DSend(r))) <=> (run[r].pagesClosed \/ DecodeSends(r)))
       /\ WriterReceives(r) =>
            ((ENABLED (WExit(r) \/ CSend(r))) <=> (run[r].convertedClosed \/ ConvertSends(r)))
       /\ run[r].rawClosed <=> run[r].fpc = "done"
       /\ run[r].pagesClosed <=> run[r].rpc = "done"
       /\ run[r].convertedClosed <=> run[r].cpc = "done"

\* The writer has returned an error, which cancelled the context, while a
\* convert worker waits to send its page and the other workers wait for pages.
C20_Witness ==
    \E r \in Runs :
       /\ run[r].status = "running" /\ ctx0Done(r)
       /\ run[r].wpc = "done"
       /\ ConvertSends(r) /\ ConvertReceives(r)
       /\ ~run[r].pagesClosed

----------------------------------------------------------------------------
\* cacheScaler.Scale with the call of kernelScaler.Scale it ends in taken step
\* by step: the scratch buffer is taken from the Scaler's sync.Pool, scaleX
\* fills it, scaleY reads it, and the deferred Put gives it back.

\* The steps of a call that are inside scaler.Scale(dst, src).
InScale == {"scaleX", "scaleY", "put"}

\* The calls that are inside scaler.Scale.
Scaling == {t \in DOMAIN zcall : zcall[t].pc \in InScale}

\* The buffers z.pool.Get() can return to a call on Scaler z: one that was put
\* back and is still in the pool, or the one New makes (0).
PoolChoices(z) == {f[2] : f \in {g \in call.free : g[1] = z}} \cup {0}

\* A Scaler with one scratch buffer for all its calls.
ZGetTmp_Shared(t) ==
    /\ call.op = "cacheScaler.Scale"
    /\ zcall[t].pc = "scale"
    /\ call' = [call EXCEPT !.tmp[t] = zcall[t].scaler,
                            !.made = IF @ < zcall[t].scaler THEN zcall[t].scaler ELSE @]
    /\ zcall' = [zcall EXCEPT ![t].pc = "scaleX"]
    /\ UNCHANGED <<run, params, cache, pools, bufs, zcache, scalers, zmu, zused, pmu, pcall>>

\* tmpp := z.pool.Get().(*[]float64); defer z.pool.Put(tmpp); tmp = *tmpp
ZGetTmp(t) ==
    /\ call.op = "cacheScaler.Scale"
    /\ zcall[t].pc = "scale"
    /\ \E b \in PoolChoices(zcall[t].scaler) :
         LET tmp == IF b = 0 THEN call.made + 1 ELSE b
             same == {u \in Scaling : zcall[u].key = zcall[t].key}
             other == {u \in Scaling : zcall[u].key # zcall[t].key}
         IN  call' = [call EXCEPT
                        !.tmp[t] = tmp,
                        !.free = @ \ {<<zcall[t].scaler, tmp>>},
                        !.made = IF b = 0 THEN @ + 1 ELSE @,
                        !.overlaps = @ \cup (IF same # {} THEN {"same"} ELSE {})
                                       \cup (IF other # {} THEN {"different"} ELSE {})]
    /\ zcall' = [zcall EXCEPT ![t].pc = "scaleX"]
    /\ UNCHANGED <<run, params, cache, pools, bufs, zcache, scalers, zmu, zused, pmu, pcall>>

\* z.scaleX(tmp, src): every element of tmp is written from the source of the
\* call.
ZScaleX(t) ==
    /\ call.op = "cacheScaler.Scale"
    /\ zcall[t].pc = "scaleX"
    /\ call' = [call EXCEPT !.content = (call.tmp[t] :> <<t, zcall[t].n>>) @@ @]
    /\ zcall' = [zcall EXCEPT ![t].pc = "scaleY"]
    /\ UNCHANGED <<run, params, cache, pools, bufs, zcache, scalers, zmu, zused, pmu, pcall>>

\* z.scaleY(dst, tmp): dst is computed from what tmp holds.
ZScaleY(t) ==
    /\ call.op = "cacheScaler.Scale"
    /\ zcall[t].pc = "scaleY"
    /\ call' = [call EXCEPT !.dst[t] = call.content[call.tmp[t]]]
    /\ zcall' = [zcall EXCEPT ![t].pc = "put"]
    /\ UNCHANGED <<run, params, cache, pools, bufs, zcache, scalers, zmu, zused, pmu, pcall>>

\* kernelScaler.Scale returns: the deferred z.pool.Put(tmpp) runs, and
\* cacheScaler.Scale returns.
ZPutTmp(t) ==
    /\ call.op = "cacheScaler.Scale"
    /\ zcall[t].pc = "put"
    /\ call' = [call EXCEPT !.free = @ \cup {<<zcall[t].scaler, call.tmp[t]>>},
                            !.tmp[t] = 0]
    /\ zused' = zused \cup {<<zcall[t].key, zcall[t].scaler>>}
    /\ zcall' = [zcall EXCEPT ![t] = [@ EXCEPT !.pc = "idle", !.scaler = 0, !.ok = FALSE]]
    /\ UNCHANGED <<run, params, cache, pools, bufs, zcache, scalers, zmu, pmu, pcall>>

InitScaling ==
    /\ run = [r \in Runs |-> NotCalled]
    /\ params \in Boxes
    /\ cache = <<>> /\ pools = <<>> /\ bufs = <<>>
    /\ zcache = <<>> /\ scalers = <<>>
    /\ zmu = 0 /\ zused = {}
    /\ zcall = [t \in 1..ScaleCallers |-> NoCall]
    /\ pmu = 0 /\ pcall = <<>>
    /\ call = [op |-> "cacheScaler.Scale", free |-> {}, made |-> 0,
               tmp |-> [t \in 1..ScaleCallers |-> 0], content |-> <<>>,
               dst |-> [t \in 1..ScaleCallers |-> <<>>], overlaps |-> {}]

NextScaling ==
    \E t \in DOMAIN zcall :
        \/ ZBegin(t) \/ ZLock(t) \/ ZLookup(t) \/ ZBuild(t) \/ ZUnlock(t)
        \/ ZGetTmp(t) \/ ZScaleX(t) \/ ZScaleY(t) \/ ZPutTmp(t)

SpecScaling == InitScaling /\ [][NextScaling]_vars

\* C21: the lock of the cache is held by a call only between its lookup and
\* its unlock, never by a call that is inside scaler.Scale; a call that has
\* unlocked enters scaler.Scale whatever the other calls are doing; the calls
\* that are inside scaler.Scale at once have different scratch buffers, none
\* of them in a pool, and scaleY reads from the buffer what scaleX of its own
\* call wrote.
C21_ScalesOutsideLock ==
    /\ zmu # 0 => zcall[zmu].pc \in {"lookup", "build", "unlock"}
    /\ \A t \in DOMAIN zcall :
         /\ zcall[t].pc \in InScale \cup {"scale"} => zmu # t
         /\ zcall[t].pc = "scale" => ENABLED ZGetTmp(t)
         /\ zcall[t].pc \in InScale
            => /\ call.tmp[t] # 0
               /\ <<zcall[t].scaler, call.tmp[t]>> \notin call.free
               /\ \A u \in Scaling \ {t} : call.tmp[u] # call.tmp[t]
         /\ zcall[t].pc = "put" => call.dst[t] = <<t, zcall[t].n>>

\* Two calls of one key are inside scaler.Scale at once, both with the Scaler
\* they found in the cache, while the lock is held by nobody; calls of
\* different keys have been inside scaler.Scale at once before.
C21_Witness ==
    /\ call.op = "cacheScaler.Scale"
    /\ call.overlaps = {"same", "different"}
    /\ Cardinality(Scaling) = 2
    /\ \A t, u \in Scaling : zcall[t].ok /\ zcall[t].pc = "scaleY" /\ zcall[t].key = zcall[u].key
    /\ zmu = 0

----------------------------------------------------------------------------
\* The order of the entries of the archive.

\* The entries of the archive of run r are named by the indices of the pages
\* they hold.
NamedByIndex(r) ==
    \A k \in 1..Len(run[r].zip) :
        \E i \in 0..(Len(run[r].images) - 1) :
            /\ run[r].zip[k].name = EntryName(i)
            /\ run[r].zip[k].pix.entry = run[r].images[i + 1]

\* The writer of run r takes a page only when it holds none, and the archive
\* changes only by the entry of the page the writer holds, appended.
WritesAsReceived(r) ==
    /\ run'[r].wpage # run[r].wpage /\ run'[r].wpage # NoPage => run[r].wpage = NoPage
    /\ run'[r].zip # run[r].zip =>
         /\ run[r].wpage # NoPage /\ run'[r].wpage = run[r].wpage
         /\ Len(run'[r].zip) = Len(run[r].zip) + 1
         /\ SubSeq(run'[r].zip, 1, Len(run[r].zip)) = run[r].zip
         /\ run'[r].zip[Len(run'[r].zip)].name = EntryName(run[r].wpage.index)
         /\ run'[r].zip[Len(run'[r].zip)].pix = bufs[run[r].wpage.buf].pix

\* C22: the writer appends the entry of each page as it receives it, holding
\* one page at a time, so the archive lists the entries in the order the pages
\* were converted; whatever that order, an entry is named by the index of the
\* page it holds.
C22_WrittenAsCompleted ==
    /\ [](\A r \in Runs : NamedByIndex(r))
    /\ [][\A r \in Runs : WritesAsReceived(r)]_vars

\* With two workers per stage, the archive lists the entry of index 1, holding
\* the second image, before the entry of index 0, holding the first.
C22_Witness ==
    \E r \in Runs :
        /\ run[r].NumCPU = 2
        /\ Len(run[r].zip) = 2
        /\ run[r].zip[1].name = EntryName(1) /\ run[r].zip[1].pix.entry = run[r].images[2]
        /\ run[r].zip[2].name = EntryName(0) /\ run[r].zip[2].pix.entry = run[r].images[1]

----------------------------------------------------------------------------
\* The pages in flight: runs on an archive with more entries than the stages
\* can hold.

\* The number of workers of each stage (runtime.NumCPU()) in these runs.
FlowCPU == 1

InitFlow ==
    /\ InitShared
    /\ \E in \in {p \in PipelineInputs : selectReader(p.path, p.stat).reader = "readZip"} :
         run = [r \in Runs |->
                IF r = "a"
                THEN NewRun("called", in.path, in.stat, 2 * FlowCPU + 3, StageErrors, FlowCPU)
                ELSE NotCalled]

SpecFlow == InitFlow /\ [][Next]_vars

\* The pages of run r whose source the reader has opened and whose entry is
\* not in the archive.
InFlight(r) == Cardinality(DOMAIN run[r].files) - Len(run[r].zip)

\* The sources of run r that are open.
OpenFiles(r) == {pos \in DOMAIN run[r].files : run[r].files[pos] = <<>>}

\* C23: whatever the number of images, at most 2*W + 2 pages are opened and
\* not yet written, and at most W + 1 sources are open at once, W being the
\* number of workers of each stage.
C23_BoundedInFlight ==
    \A r \in Runs :
        /\ InFlight(r) <= 2 * run[r].NumCPU + 2
        /\ Cardinality(OpenFiles(r)) <= run[r].NumCPU + 1

\* A run with more images than 2*W + 2 has 2*W + 2 pages in flight, W + 1 of
\* them with their source open: one with the reader, W with decode workers,
\* W with convert workers and one with the writer.
C23_Witness ==
    \E r \in Runs :
        /\ run[r].nentries > 2 * run[r].NumCPU + 2
        /\ InFlight(r) = 2 * run[r].NumCPU + 2
        /\ Cardinality(OpenFiles(r)) = run[r].NumCPU + 1
        /\ run[r].fpc = "send" /\ run[r].wpc = "write"
        /\ Cardinality(run[r].dBusy) = run[r].NumCPU
        /\ Cardinality(run[r].cBusy) = run[r].NumCPU

----------------------------------------------------------------------------
\* concurrentIterate as the conversions of grayscale.go call it: one goroutine
\* per row of the source, each writing its row of dst pixel by pixel.

\* The conversions that go through concurrentIterate.
RowKinds == Kinds \ {"Gray"}

\* The pixel the conversion of the kind computes from the bytes of src.Pix at i.
GrayAt(kind, srcpix, i) ==
    CASE kind = "RGBA" -> rgbaToGray(srcpix, i)
      [] kind = "RGBA64" -> rgba64ToGray(srcpix, i)
      [] kind = "NRGBA" -> nrgbaToGray(srcpix, i)
      [] kind = "NRGBA64" -> nrgba64ToGray(srcpix, i)

\* The images converted: one or two pixels wide, with or without padding.
RowSources ==
    UNION { { [kind |-> t[1], w |-> t[2], h |-> t[3],
               stride |-> t[2] * BytesPerPixel(t[1]) + t[4],
               pix |-> PixOf(t[1], t[2], t[3], t[4], c)] :
                 c \in [1..(t[2] * t[3]) -> Palette(t[1])] } :
            t \in RowKinds \X {1, 2} \X (1..GrayRows) \X {0, 1} }

\* for j := 0; j < limit; j++ { wg.Add(1); go func(k int) {...}(j) }
CIGo ==
    /\ call.op = "concurrentIterate" /\ call.pc = "loop"
    /\ call.j < call.limit
    /\ call' = [call EXCEPT !.wg = @ + 1, !.x[call.j] = 0, !.j = @ + 1]
    /\ UNCHANGED converter

\* Goroutine k, inside fn(k): dst.Pix[y*dst.Stride+x] = rgbToGray(r, g, b); x++
CIWrite(k) ==
    /\ call.op = "concurrentIterate"
    /\ k \in DOMAIN call.x
    /\ call.x[k] \in 0..(call.dst.stride - 1)
    /\ LET x == call.x[k]
           d == k * call.dst.stride + x
           i == k * call.src.stride + x * BytesPerPixel(call.src.kind)
       IN  call' = [call EXCEPT !.dstpix[d + 1] = GrayAt(call.src.kind, call.pix, i),
                                !.writes[d] = Append(@, k),
                                !.x[k] = @ + 1]
    /\ UNCHANGED converter

\* Goroutine k: fn(k) has returned; wg.Done().
CIDone(k) ==
    /\ call.op = "concurrentIterate"
    /\ k \in DOMAIN call.x
    /\ call.x[k] = call.dst.stride
    /\ call' = [call EXCEPT !.wg = @ - 1, !.x[k] = @ + 1]
    /\ UNCHANGED converter

\* A concurrentIterate that returns when the goroutines are started.
CIWait_Started ==
    /\ call.op = "concurrentIterate" /\ call.pc = "loop"
    /\ call.j = call.limit
    /\ call' = [call EXCEPT !.pc = "returned"]
    /\ UNCHANGED converter

\* wg.Wait() returns when the counter is zero.
CIWait ==
    /\ call.op = "concurrentIterate" /\ call.pc = "loop"
    /\ call.j = call.limit
    /\ call.wg = 0
    /\ call' = [call EXCEPT !.pc = "returned"]
    /\ UNCHANGED converter

\* dst is an image of the size of the source with stride = width, as
\* Grayscale and ImagePool.GetFromImage make it; limit is src.Rect.Dy().
InitRows ==
    /\ InitIdle
    /\ \E src \in RowSources :
         call = [op |-> "concurrentIterate", pc |-> "loop",
                 src |-> [kind |-> src.kind, w |-> src.w, h |-> src.h, stride |-> src.stride],
                 pix |-> src.pix,
                 dst |-> [w |-> src.w, h |-> src.h, stride |-> src.w],
                 dstpix |-> [k \in 1..(src.w * src.h) |-> 0],
                 limit |-> src.h, j |-> 0, wg |-> 0,
                 x |-> [k \in 0..(src.h - 1) |-> 0 - 1],
                 writes |-> [d \in 0..(src.w * src.h - 1) |-> <<>>]]

NextRows == CIGo \/ (\E k \in 0..(GrayRows - 1) : CIWrite(k) \/ CIDone(k)) \/ CIWait

SpecRows == InitRows /\ [][NextRows]_vars

\* The goroutines inside fn.
Writing == {k \in DOMAIN call.x : call.x[k] \in 0..(call.dst.stride - 1)}

\* C24: the goroutine of row y writes only indices of dst.Pix in
\* [y*stride, (y+1)*stride); no index is written twice, and no two goroutines
\* are about to write the same index; when concurrentIterate has returned,
\* fn(k) has returned for every k in [0, limit) and every index of dst.Pix has
\* been written exactly once.
C24_RowsDisjoint ==
    call.op = "concurrentIterate" =>
        /\ \A d \in DOMAIN call.writes :
             /\ Len(call.writes[d]) <= 1
             /\ \A n \in 1..Len(call.writes[d]) :
                  LET y == call.writes[d][n]
                  IN  y * call.dst.stride <= d /\ d < (y + 1) * call.dst.stride
        /\ \A k, l \in Writing :
             k # l => k * call.dst.stride + call.x[k] # l * call.dst.stride + call.x[l]
        /\ call.pc = "returned" =>
             /\ \A k \in 0..(call.limit - 1) : call.x[k] = call.dst.stride + 1
             /\ \A d \in 0..(Len(call.dstpix) - 1) : Len(call.writes[d]) = 1

\* The goroutines of the two rows of an NRGBA image two pixels wide have each
\* written the first pixel of their row and not the second.
C24_Witness ==
    /\ call.op = "concurrentIterate" /\ call.pc = "loop"
    /\ call.src.kind = "NRGBA" /\ call.limit = 2 /\ call.dst.stride = 2
    /\ call.x[0] = 1 /\ call.x[1] = 1
    /\ call.writes = (0 :> <<0>>) @@ (1 :> <<>>) @@ (2 :> <<1>>) @@ (3 :> <<>>)

----------------------------------------------------------------------------
\* The two trimming loops of AutoContrast, one bucket per step, in the
\* arithmetic of uint: a negative number n stands for the uint 2^64 + n that a
\* subtraction below zero wraps to.

\* a - b of two uints.
USub(a, b) == a - b

\* a >= b of two uints.
UGe(a, b) == IF (a < 0) = (b < 0) THEN a >= b ELSE a < 0

\* The cutoffs of the trimmed calls, in percent.
TrimCutoffs == {25, 50, 75, 100, 150}

\* hist := Histogram(img); cutl := uint(float64(len(img.Pix)) * cutoff / 100);
\* cuth := cutl
TrimStart ==
    /\ call.op = "AutoContrast.trim" /\ call.pc = "called"
    /\ call.cutoff > 0
    /\ \E cpus \in 1..MaxCPU :
         LET hist == Histogram(call.img, cpus)
             cut == CutLen(call.img, call.cutoff)
         IN  call' = [call EXCEPT !.hist0 = hist, !.hist = hist, !.cut = cut,
                                  !.cutl = cut, !.cuth = cut, !.i = 0, !.pc = "low"]
    /\ UNCHANGED converter

\* A first loop that takes cutl from the first bucket, whatever it holds.
TrimLow_Unguarded ==
    /\ call.op = "AutoContrast.trim" /\ call.pc = "low"
    /\ call' = [call EXCEPT !.hist[call.i] = USub(@, call.cutl),
                            !.low = [call.hist EXCEPT ![call.i] = USub(@, call.cutl)],
                            !.i = 255, !.pc = "high"]
    /\ UNCHANGED converter

\* One iteration of for i := 0; i < 256; i++ { if hist[i] >= cutl {
\* hist[i] -= cutl; break }; cutl -= hist[i]; hist[i] = 0 }
TrimLow ==
    /\ call.op = "AutoContrast.trim" /\ call.pc = "low"
    /\ IF call.i = 256
       THEN call' = [call EXCEPT !.low = call.hist, !.i = 255, !.pc = "high"]
       ELSE IF UGe(call.hist[call.i], call.cutl)
       THEN call' = [call EXCEPT !.hist[call.i] = USub(@, call.cutl),
                                 !.low = [call.hist EXCEPT ![call.i] = USub(@, call.cutl)],
                                 !.i = 255, !.pc = "high"]
       ELSE call' = [call EXCEPT !.cutl = USub(@, call.hist[call.i]),
                                 !.hist[call.i] = 0,
                                 !.i = @ + 1]
    /\ UNCHANGED converter

\* One iteration of for i := 255; i >= 0; i-- { if hist[i] >= cuth {
\* hist[i] -= cuth; break }; cuth -= hist[i]; hist[i] = 0 }
TrimHigh ==
    /\ call.op = "AutoContrast.trim" /\ call.pc = "high"
    /\ IF call.i < 0
       THEN call' = [call EXCEPT !.pc = "trimmed"]
       ELSE IF UGe(call.hist[call.i], call.cuth)
       THEN call' = [call EXCEPT !.hist[call.i] = USub(@, call.cuth), !.pc = "trimmed"]
       ELSE call' = [call EXCEPT !.cuth = USub(@, call.hist[call.i]),
                                 !.hist[call.i] = 0,
                                 !.i = @ - 1]
    /\ UNCHANGED converter

InitTrim ==
    /\ InitIdle
    /\ \E img \in ToneImages, cutoff \in TrimCutoffs :
         call = [op |-> "AutoContrast.trim", pc |-> "called", img |-> img,
                 cutoff |-> cutoff, cut |-> 0, cutl |-> 0, cuth |-> 0, i |-> 0,
                 hist0 |-> ZeroHist, hist |-> ZeroHist, low |-> ZeroHist]

NextTrim == TrimStart \/ TrimLow \/ TrimHigh

SpecTrim == InitTrim /\ [][NextTrim]_vars

Least(a, b) == IF a <= b THEN a ELSE b

\* hist is what is left of from when samples are removed from its low end:
\* the buckets below some bucket are empty, those above it untouched.
CutFromLow(hist, from) ==
    \E k \in Byte :
        /\ \A v \in 0..(k - 1) : hist[v] = 0
        /\ hist[k] <= from[k]
        /\ \A v \in (k + 1)..255 : hist[v] = from[v]

CutFromHigh(hist, from) ==
    \E k \in Byte :
        /\ \A v \in (k + 1)..255 : hist[v] = 0
        /\ hist[k] <= from[k]
        /\ \A v \in 0..(k - 1) : hist[v] = from[v]

\* C25: with cutoff > 0 and cut = len(Pix)*cutoff/100 rounded down, the first
\* loop removes min(cut, total) samples from the low end of the histogram and
\* the second min(cut, what is left) samples from the high end, emptying the
\* buckets they use up; at no step is a bucket or what is left of cutl or
\* cuth below zero or wrapped, and no bucket is above its count in the
\* histogram; the result is that of CutLow and CutHigh.
C25_TrimsExactly ==
    call.op = "AutoContrast.trim" /\ call.pc # "called" =>
        /\ call.cut = (Len(call.img.pix) * call.cutoff) \div 100
        /\ \A v \in Byte : 0 <= call.hist[v] /\ call.hist[v] <= call.hist0[v]
        /\ 0 <= call.cutl /\ call.cutl <= call.cut
        /\ 0 <= call.cuth /\ call.cuth <= call.cut
        /\ call.pc = "high" /\ call.i = 255 =>
             /\ call.hist = call.low
             /\ SumOf(call.low, 0, 255)
                  = SumOf(call.hist0, 0, 255) - Least(call.cut, SumOf(call.hist0, 0, 255))
             /\ CutFromLow(call.low, call.hist0)
             /\ call.low = CutLow(call.hist0, call.cut)
        /\ call.pc = "trimmed" =>
             /\ SumOf(call.hist, 0, 255)
                  = SumOf(call.low, 0, 255) - Least(call.cut, SumOf(call.low, 0, 255))
             /\ CutFromHigh(call.hist, call.low)
             /\ call.hist = CutHigh(call.low, call.cut)

\* A cutoff of 150% of three pixels: the first loop ran over all the buckets
\* with one sample of cutl left, and the second found nothing to remove.
C25_Witness ==
    /\ call.op = "AutoContrast.trim" /\ call.pc = "trimmed"
    /\ call.cutoff = 150 /\ call.cut = 4
    /\ SumOf(call.hist0, 0, 255) = 3
    /\ call.cutl = 1 /\ call.cuth = 4
    /\ call.hist = ZeroHist

----------------------------------------------------------------------------
\* AutoContrast on the images of ToneImages and on the empty image.

\* The image.Gray with no pixel.
EmptyGray == [w |-> 0, h |-> 0, stride |-> 0, pix |-> <<>>]

InitFlat ==
    /\ InitIdle
    /\ \E img \in ToneImages \cup {EmptyGray}, cutoff \in Cutoffs, cpus \in 1..MaxCPU :
         call = [op |-> "AutoContrast", pc |-> "called", img |-> img, cpus |-> cpus,
                 cutoff |-> cutoff, cut |-> 0, hist |-> ZeroHist, lo |-> 0, hi |-> 0,
                 lut |-> [i \in Byte |-> 0], pix |-> img.pix]

SpecFlat == InitFlat /\ [][NextTone]_vars

\* C26: a call of AutoContrast that finds hi <= lo, hi and lo being the
\* highest and the lowest bucket left non-empty by the trimming (0 when none
\* is left), returns with every byte of Pix as it was; a call that finds
\* lo < hi does not return before the table is applied.
C26_FlatUnchanged ==
    call.op = "AutoContrast" /\ call.pc \in {"lut", "returned"} =>
        /\ call.lo = Lowest(call.hist) /\ call.hi = Highest(call.hist)
        /\ call.hi <= call.lo => call.pc = "returned" /\ call.pix = call.img.pix
        /\ call.pc = "lut" => call.lo < call.hi /\ call.pix = call.img.pix

\* A call with cutoff 50 on three pixels of values 0, 25 and 50 returned: the
\* trimming left the bucket of 25 alone, so that hi = lo = 25.
C26_Witness ==
    /\ call.op = "AutoContrast" /\ call.pc = "returned"
    /\ call.cutoff = 50 /\ call.img.pix = <<0, 25, 50>>
    /\ call.lo = 25 /\ call.hi = 25
    /\ call.hist[25] = 1

----------------------------------------------------------------------------
\* The return of the convert stage, in the convert of Converter (part_007 and
\* mangaconv.go:91-111), whose workers defer wg.Done(), and in the function
\* convert of mangaconv.go:178-198, whose workers call wg.Done() after their
\* loop.

\* case <-ctx.Done(): return, in the worker of mangaconv.go:182-195: the
\* worker leaves the loop and the goroutine by the return, and the wg.Done()
\* that follows the loop is not reached.
CReturn(r) ==
    /\ ctx0Done(r)
    /\ \E w \in run[r].cBusy :
         /\ w.pc = "send"
         /\ Upd(r, [run[r] EXCEPT !.cBusy = @ \ {w}])
    /\ UNCHANGED shared

\* The steps of a run whose convert stage is the function convert.
StepConvert(r) ==
    \/ Start(r)
    \/ ReadZipOpen(r)
    \/ FNext(r)
    \/ FSend(r)
    \/ FCancel(r)
    \/ DExit(r)
    \/ DDecode(r)
    \/ DSend(r)
    \/ DCancel(r)
    \/ DecodeReturn(r)
    \/ ReadReturn(r)
    \/ CExit(r)
    \/ CGet(r)
    \/ CScale(r)
    \/ CPut(r)
    \/ CSend(r)
    \/ CReturn(r)
    \/ ConvertReturn(r)
    \/ WExit(r)
    \/ WWrite(r)
    \/ WPut(r)
    \/ WaitReturn(r)

NextConvert == \E r \in Runs : StepConvert(r)

SpecConvert == Init /\ [][NextConvert]_vars /\ WF_vars(NextConvert)

\* The convert workers of run r that have left their goroutine.
Exited(r) == run[r].NumCPU - run[r].cIdle - Cardinality(run[r].cBusy)

\* Every worker that has exited has signalled the wait group, once; convert
\* has returned only after all of them, and converted is closed exactly then.
WorkersSignal(r) ==
    run[r].cpc # "off" =>
        /\ run[r].cDone = Exited(r)
        /\ run[r].cpc = "done" => run[r].cDone = run[r].NumCPU
        /\ run[r].convertedClosed <=> run[r].cpc = "done"

\* C27: every convert worker signals the wait group exactly once when it
\* exits, by the end of its loop or by the cancellation it observes in its
\* send; convert returns, and converted is closed, after all workers have
\* exited, and it does return once pages is closed or the context cancelled.
C27_ConvertReturns ==
    /\ [](\A r \in Runs : WorkersSignal(r))
    /\ \A r \in Runs :
         (run[r].cpc = "wait" /\ (run[r].pagesClosed \/ ctx0Done(r))) ~> (run[r].cpc = "done")

----------------------------------------------------------------------------
\* The uint32 arithmetic of the conversions on 16-bit channels.

\* The channel values tried: the ends of the 16-bit range and of its halves.
Channels == {0, 1, 255, 256, 32767, 32768, 65534, 65535}

\* r = r * a / 0xffff, likewise g and b: nrgbaToGray and nrgba64ToGray.
GCPremultiply ==
    /\ call.op = "rgbToGray" /\ call.pc = "called"
    /\ call.straight
    /\ call' = [call EXCEPT
                  !.products = <<Product(call.r, call.a), Product(call.g, call.a),
                                 Product(call.b, call.a)>>,
                  !.r = Premultiply(call.r, call.a),
                  !.g = Premultiply(call.g, call.a),
                  !.b = Premultiply(call.b, call.a),
                  !.pc = "gray"]
    /\ UNCHANGED converter

\* rgbaToGray and rgba64ToGray: the channels are premultiplied already.
GCPass ==
    /\ call.op = "rgbToGray" /\ call.pc = "called"
    /\ ~call.straight
    /\ call' = [call EXCEPT !.pc = "gray"]
    /\ UNCHANGED converter

\* dst.Pix[...] = rgbToGray(r, g, b)
GCGray ==
    /\ call.op = "rgbToGray" /\ call.pc = "gray"
    /\ call' = [call EXCEPT !.t = GraySum(GrayTerms(call.r, call.g, call.b), 4),
                            !.out = rgbToGray(call.r, call.g, call.b),
                            !.pc = "returned"]
    /\ UNCHANGED converter

InitChannels ==
    /\ InitIdle
    /\ \E r, g, b, a \in Channels, straight \in BOOLEAN :
         call = [op |-> "rgbToGray", pc |-> "called", straight |-> straight,
                 in |-> <<r, g, b, a>>, r |-> r, g |-> g, b |-> b, a |-> a,
                 products |-> <<>>, t |-> <<>>, out |-> 0]

NextChannels == GCPremultiply \/ GCPass \/ GCGray

SpecChannels == InitChannels /\ [][NextChannels]_vars

\* The sum of the first n terms, of unbounded integers.
RECURSIVE ExactSum(_, _)
ExactSum(terms, n) ==
    IF n = 0 THEN <<>>
    ELSE AddLimbs(ExactSum(terms, n - 1), MulLimbs(Nat2Limbs(terms[n][1]), terms[n][2]))

\* C28: for 16-bit channels and alpha, each product channel*alpha the
\* conversions form is below 2^32 and is the product of the integers; the
\* premultiplied channels are 16-bit again; the sum
\* 19595*r + 38470*g + 7471*b + 2^15, with every partial sum, is below 2^32
\* and is the sum of the integers; and the sum shifted right by 24 is in
\* 0..255 and is the byte returned.
C28_NoOverflow ==
    call.op = "rgbToGray" =>
        /\ call.pc \in {"gray", "returned"} /\ call.straight =>
             /\ \A k \in 1..3 :
                  /\ call.products[k] = MulLimbs(Nat2Limbs(call.in[k]), call.in[4])
                  /\ BitLen(call.products[k]) <= 32
             /\ call.r <= 65535 /\ call.g <= 65535 /\ call.b <= 65535
        /\ call.pc = "returned" =>
             LET terms == GrayTerms(call.r, call.g, call.b)
             IN  /\ \A n \in 1..Len(terms) :
                      /\ GraySum(terms, n) = ExactSum(terms, n)
                      /\ BitLen(ExactSum(terms, n)) <= 32
                 /\ call.t = ExactSum(terms, Len(terms))
                 /\ Limbs2Nat(ShiftRight(call.t, 24)) \in 0..255
                 /\ call.out = Limbs2Nat(ShiftRight(call.t, 24))

\* The greatest case: channels and alpha 0xffff give products of
\* 0xffff*0xffff, a sum of 32 bits and the byte 255.
C28_Witness ==
    /\ call.op = "rgbToGray" /\ call.pc = "returned" /\ call.straight
    /\ call.in = <<65535, 65535, 65535, 65535>>
    /\ BitLen(call.products[1]) = 32
    /\ BitLen(call.t) = 32
    /\ call.out = 255

----------------------------------------------------------------------------
\* newDistrib (imgutil/scale.go) and the loops of scaleX and scaleY over the
\* distrib it builds: one line of the source image (a row for scaleX, a
\* column of the scratch buffer for scaleY) is resampled.

\* The most columns or rows of the source and of the destination.
MaxSpan == 5

\* The lines of the image across the direction that is resampled.
MaxLines == 2

\* The sources of the distrib, and the one the loop is at.
DSources == call.d.sources

DSource == DSources[call.x + 1]

\* The length of the buffer that is read: src.Pix for scaleX (Stride = sw),
\* tmp for scaleY (sh rows of the width of the scratch buffer).
ReadLen == call.lines * call.sw

\* pi := int(y)*src.Stride + int(c.coord), and c.coord*z.dw + dx.
ReadIndex(coord) ==
    IF call.axis = "x" THEN call.line * call.sw + coord ELSE coord * call.lines + call.line

\* The first and the last index of the line that is resampled, and the step
\* from one element of it to the next.
LineIndexes ==
    IF call.axis = "x"
    THEN { call.line * call.sw + k : k \in 0..(call.sw - 1) }
    ELSE { k * call.lines + call.line : k \in 0..(call.sw - 1) }

\* horizontal: newDistrib(q, dw, sw), vertical: newDistrib(q, dh, sh)
DNew ==
    /\ call.op = "newDistrib" /\ call.pc = "new"
    /\ call' = [call EXCEPT !.d = newDistrib(call.dw, call.sw), !.pc = "source"]
    /\ UNCHANGED converter

\* for _, s := range sources { ... range contribs[s.i:s.j]: the slice
\* expression panics when its bounds are out of range.
DRange ==
    /\ call.op = "newDistrib" /\ call.pc = "source"
    /\ call.x < Len(DSources)
    /\ IF 0 <= DSource.i /\ DSource.i <= DSource.j /\ DSource.j <= Len(call.d.contribs)
       THEN call' = [call EXCEPT !.pc = "contrib", !.c = DSource.i]
       ELSE call' = [call EXCEPT !.pc = "panic"]
    /\ UNCHANGED converter

\* p += float64(uint32(src.Pix[pi]) * 0x101) * c.weight, and
\* p += tmp[c.coord*z.dw+dx] * c.weight: the index expression panics when the
\* index is out of range.
DRead ==
    /\ call.op = "newDistrib" /\ call.pc = "contrib"
    /\ call.c < DSource.j
    /\ LET at == ReadIndex(call.d.contribs[call.c + 1].coord)
       IN  IF 0 <= at /\ at < ReadLen
           THEN call' = [call EXCEPT !.read = @ \cup {at}, !.c = @ + 1]
           ELSE call' = [call EXCEPT !.pc = "panic"]
    /\ UNCHANGED converter

\* tmp[t] = p; t++, and dst.Pix[d] = ...; d += dst.Stride
DStore ==
    /\ call.op = "newDistrib" /\ call.pc = "contrib"
    /\ call.c = DSource.j
    /\ call' = [call EXCEPT !.x = @ + 1, !.pc = "source"]
    /\ UNCHANGED converter

\* The loop over the sources ends.
DDone ==
    /\ call.op = "newDistrib" /\ call.pc = "source"
    /\ call.x = Len(DSources)
    /\ call' = [call EXCEPT !.pc = "done"]
    /\ UNCHANGED converter

InitDistrib ==
    /\ InitIdle
    /\ \E dw \in 1..MaxSpan, sw \in 1..MaxSpan, axis \in {"x", "y"},
          lines \in 1..MaxLines :
         \E line \in 0..(lines - 1) :
           call = [op |-> "newDistrib", pc |-> "new", dw |-> dw, sw |-> sw,
                   axis |-> axis, lines |-> lines, line |-> line,
                   d |-> [sources |-> <<>>, contribs |-> <<>>],
                   x |-> 0, c |-> 0, read |-> {}]

NextDistrib == DNew \/ DRange \/ DRead \/ DStore \/ DDone

SpecDistrib == InitDistrib /\ [][NextDistrib]_vars

\* C30: the distrib built for dw destinations and sw sources has one source
\* per destination; each owns a range [i, j) of contribs with
\* 0 <= i <= j <= len(contribs); the ranges follow one another from 0 to
\* len(contribs) without a gap; every contribution's coord is in [0, sw);
\* every destination has at least one contribution; and the loops of scaleX
\* and scaleY never panic and read only elements of the line they resample.
C30_WellFormed ==
    call.op = "newDistrib" /\ call.pc # "new" =>
        LET sources == call.d.sources
            contribs == call.d.contribs
        IN  /\ Len(sources) = call.dw
            /\ \A x \in 1..Len(sources) :
                 /\ 0 <= sources[x].i /\ sources[x].i <= sources[x].j
                 /\ sources[x].j <= Len(contribs)
                 /\ sources[x].i = (IF x = 1 THEN 0 ELSE sources[x - 1].j)
                 /\ sources[x].i < sources[x].j
            /\ sources[Len(sources)].j = Len(contribs)
            /\ \A k \in 1..Len(contribs) :
                 contribs[k].coord >= 0 /\ contribs[k].coord < call.sw
            /\ call.pc # "panic"
            /\ call.read \subseteq LineIndexes

\* Three destinations over five sources, all resampled: the last destination
\* owns contribs[9:12], and the source coordinate 2, whose weight is exactly
\* zero, is not among them.
C30_Witness ==
    /\ call.op = "newDistrib" /\ call.pc = "done"
    /\ call.dw = 3 /\ call.sw = 5 /\ call.axis = "y" /\ call.lines = 2 /\ call.line = 1
    /\ call.d.sources[3].i = 9 /\ call.d.sources[3].j = 12
    /\ call.d.contribs[10].coord = 1 /\ call.d.contribs[11].coord = 3
    /\ call.read = {1, 3, 5, 7, 9}

----------------------------------------------------------------------------
\* One page through Converter.convert (unnamed/part_007), element by element:
\* which elements of the pooled buffers each step reads and writes.

\* The longest side of a page and of the bounding box.
MaxPage == 2

\* The types of a decoded page: those grayscale converts itself, image.YCbCr,
\* and any other type, left to draw.Draw.
PageKinds == Kinds \cup {"YCbCr", "Other"}

\* What an element of a buffer holds: "old", what an earlier user of the
\* pooled buffer left; "zero", the zero of a buffer made by New; "new", a
\* value written in this call that depends on the page only; "tainted", a
\* value written in this call from an element that was not "new".
Buffer(n, mark) == [k \in 1..n |-> mark]

\* sync.Pool.Get: a buffer that was put back, or one from New.
PoolMarks == {"old", "zero"}

\* The mark of a value computed from elements of the marks read.
Computed(reads) == IF reads \subseteq {"new"} THEN "new" ELSE "tainted"

\* An element was read before this call wrote it.
Unwritten(reads) == reads \cap {"old", "zero"} # {}

\* The marks of buf with the elements at the indexes at set to mark.
Marked(buf, at, mark) == [k \in DOMAIN buf |-> IF k \in at THEN mark ELSE buf[k]] @@ <<>>

\* for x := 0; x < dst.Stride; x++ { dst.Pix[y*dst.Stride+x] = ... }, and
\* copy(dst.Pix[dstH:dstH+dst.Stride], ...): the elements of row y.
RowIndexes_Short(y, stride) == { y * stride + x + 1 : x \in 0..(stride - 2) }

RowIndexes(y, stride) == { y * stride + x + 1 : x \in 0..(stride - 1) }

\* The conversion writes dst row by row.
ByRows == call.kind \notin {"Other"} /\ ~(call.kind = "Gray" /\ call.stride = call.w)

\* dst := p.Get(img.Bounds().Dx(), img.Bounds().Dy()) in GetFromImage
VGetSrc ==
    /\ call.op = "convert" /\ call.pc = "get"
    /\ \E m \in PoolMarks :
         call' = [call EXCEPT !.src = Buffer(call.w * call.h, m), !.got = Append(@, m),
                              !.pc = "gray"]
    /\ UNCHANGED converter

\* One row of the conversion: a goroutine of concurrentIterate for the types
\* with colour, in any order; the next step of the loop of clone and of
\* ycbcrToGray.
VRow(y) ==
    /\ call.op = "convert" /\ call.pc = "gray" /\ ByRows
    /\ y \in (0..(call.h - 1)) \ call.rows
    /\ call.kind \in RowKinds \/ y = Cardinality(call.rows)
    /\ call' = [call EXCEPT !.src = Marked(@, RowIndexes(y, call.w), "new"),
                            !.rows = @ \cup {y}]
    /\ UNCHANGED converter

\* wg.Wait() of concurrentIterate returns, or the loop ends.
VRowsDone ==
    /\ call.op = "convert" /\ call.pc = "gray" /\ ByRows
    /\ call.rows = 0..(call.h - 1)
    /\ call' = [call EXCEPT !.pc = "fit"]
    /\ UNCHANGED converter

\* clone with equal strides: copy(dst.Pix, src.Pix) copies as many elements
\* as the shorter slice holds; src.Pix holds at least src.Stride*height.
VCopy ==
    /\ call.op = "convert" /\ call.pc = "gray"
    /\ call.kind = "Gray" /\ call.stride = call.w
    /\ LET n == IF Len(call.src) < call.stride * call.h THEN Len(call.src)
                ELSE call.stride * call.h
       IN  call' = [call EXCEPT !.src = Marked(@, 1..n, "new"), !.pc = "fit"]
    /\ UNCHANGED converter

\* drawGray: draw.Draw(dst, dst.Bounds(), src, src.Bounds().Min, draw.Src)
\* sets every pixel of dst's rectangle, which has the size of src's.
VDraw ==
    /\ call.op = "convert" /\ call.pc = "gray" /\ call.kind = "Other"
    /\ call' = [call EXCEPT
                  !.src = Marked(@, UNION { RowIndexes(y, call.w) : y \in 0..(call.h - 1) },
                                 "new"),
                  !.pc = "fit"]
    /\ UNCHANGED converter

\* r := imgutil.FitRect(...); dst := c.pool.Get(r.Dx(), r.Dy())
VGetDst ==
    /\ call.op = "convert" /\ call.pc = "fit"
    /\ LET r == FitRect(call.w, call.h, call.box[1], call.box[2])
       IN  \E m \in PoolMarks :
             call' = [call EXCEPT !.dw = r[1], !.dh = r[2],
                                  !.dst = Buffer(r[1] * r[2], m), !.got = Append(@, m),
                                  !.pc = "scale"]
    /\ UNCHANGED converter

\* newDistrib for the sizes of the pages and of their targets, computed once.
PageDistribs ==
    [k \in (0..MaxPage) \X (1..MaxPage) |-> newDistrib(k[1], k[2])] @@ <<>>

\* q.newScaler(dw, dh, sw, sh, true) for a page and its target.
PageScaler(dw, dh, sw, sh) ==
    [dw |-> dw, dh |-> dh, sw |-> sw, sh |-> sh,
     horizontal |-> PageDistribs[<<dw, sw>>], vertical |-> PageDistribs[<<dh, sh>>],
     usePool |-> TRUE]

\* c.scaler.Scale(dst, src): the Scaler of the sizes of dst and src, and
\* tmpp := z.pool.Get().(*[]float64)
VGetTmp ==
    /\ call.op = "convert" /\ call.pc = "scale"
    /\ \E m \in PoolMarks :
         LET z == PageScaler(call.dw, call.dh, call.w, call.h)
         IN  call' = [call EXCEPT !.z = z, !.tmp = Buffer(makeTmpBuf(z), m),
                                  !.got = Append(@, m), !.t = 0, !.pc = "scaleX"]
    /\ UNCHANGED converter

\* The source coordinates a destination reads: c.coord for the contribs c of
\* its source s, contribs[s.i:s.j].
Coords(d, s) == { d.contribs[k].coord : k \in (s.i + 1)..s.j }

\* scaleX: tmp[t] = p, with p summed over src.Pix[y*src.Stride + c.coord].
VScaleX ==
    /\ call.op = "convert" /\ call.pc = "scaleX"
    /\ call.t < call.z.dw * call.z.sh
    /\ LET y == call.t \div call.z.dw
           s == call.z.horizontal.sources[(call.t % call.z.dw) + 1]
           pi(coord) == y * call.w + coord + 1
           reads == { call.src[pi(c)] : c \in Coords(call.z.horizontal, s) }
       IN  call' = [call EXCEPT !.tmp = Marked(@, {call.t + 1}, Computed(reads)),
                                !.early = @ \/ Unwritten(reads),
                                !.t = @ + 1]
    /\ UNCHANGED converter

\* scaleX returns.
VScaleXDone ==
    /\ call.op = "convert" /\ call.pc = "scaleX"
    /\ call.t = call.z.dw * call.z.sh
    /\ call' = [call EXCEPT !.t = 0, !.pc = "scaleY"]
    /\ UNCHANGED converter

\* scaleY: dst.Pix[d] = ..., with p summed over tmp[c.coord*z.dw+dx]; the
\* columns dx one after the other, each from its first row down.
VScaleY ==
    /\ call.op = "convert" /\ call.pc = "scaleY"
    /\ call.t < call.z.dw * call.z.dh
    /\ LET dx == call.t \div call.z.dh
           dy == call.t % call.z.dh
           s == call.z.vertical.sources[dy + 1]
           ti(coord) == coord * call.z.dw + dx + 1
           reads == { call.tmp[ti(c)] : c \in Coords(call.z.vertical, s) }
       IN  call' = [call EXCEPT !.dst = Marked(@, {dx + dy * call.dw + 1}, Computed(reads)),
                                !.early = @ \/ Unwritten(reads),
                                !.t = @ + 1]
    /\ UNCHANGED converter

\* scaleY and Scale return: the deferred z.pool.Put(tmpp), then
\* c.pool.Put(src).
VPut ==
    /\ call.op = "convert" /\ call.pc = "scaleY"
    /\ call.t = call.z.dw * call.z.dh
    /\ call' = [call EXCEPT !.put = <<call.tmp, call.src>>, !.tmp = <<>>, !.src = <<>>,
                            !.pc = "contrast"]
    /\ UNCHANGED converter

\* imgutil.AutoContrast(dst, c.params.Cutoff): Histogram reads every element
\* of dst.Pix; applyLookup, when hi > lo, maps every element through a table
\* made from the histogram.
VContrast ==
    /\ call.op = "convert" /\ call.pc = "contrast"
    /\ LET reads == { call.dst[k] : k \in DOMAIN call.dst }
       IN  \E applied \in BOOLEAN :
             call' = [call EXCEPT
                        !.dst = IF applied THEN Buffer(Len(@), Computed(reads)) ELSE @,
                        !.early = @ \/ Unwritten(reads),
                        !.pc = "gamma"]
    /\ UNCHANGED converter

\* imgutil.AdjustGamma(dst, c.params.Gamma): nothing for gamma 1; otherwise
\* applyLookup maps every element through the table of gamma.
VGamma ==
    /\ call.op = "convert" /\ call.pc = "gamma"
    /\ \E applied \in BOOLEAN :
         call' = [call EXCEPT
                    !.dst = IF applied
                            THEN [k \in DOMAIN @ |-> Computed({call.dst[k]})] @@ <<>>
                            ELSE @,
                    !.early = @ \/ (applied /\ Unwritten({ call.dst[k] : k \in DOMAIN call.dst })),
                    !.pc = "send"]
    /\ UNCHANGED converter

\* converted <- page{dst, pg.Index}
VSend ==
    /\ call.op = "convert" /\ call.pc = "send"
    /\ call' = [call EXCEPT !.out = call.dst, !.pc = "sent"]
    /\ UNCHANGED converter

InitPage ==
    /\ InitIdle
    /\ \E kind \in PageKinds, w \in 1..MaxPage, h \in 1..MaxPage, pad \in {0, 1},
          x \in 1..MaxPage, y \in 1..MaxPage :
         /\ kind = "Gray" \/ pad = 0
         /\ call = [op |-> "convert", pc |-> "get", kind |-> kind, w |-> w, h |-> h,
                    stride |-> w + pad, box |-> <<x, y>>, dw |-> 0, dh |-> 0,
                    src |-> <<>>, dst |-> <<>>, tmp |-> <<>>, got |-> <<>>, put |-> <<>>,
                    z |-> <<>>, rows |-> {}, t |-> 0, early |-> FALSE, out |-> <<>>]

NextPage ==
    \/ VGetSrc \/ (\E y \in 0..(MaxPage - 1) : VRow(y)) \/ VRowsDone \/ VCopy \/ VDraw
    \/ VGetDst \/ VGetTmp \/ VScaleX \/ VScaleXDone \/ VScaleY \/ VPut
    \/ VContrast \/ VGamma \/ VSend

SpecPage == InitPage /\ [][NextPage]_vars

\* Every element of buf was written in this call, from the page only.
AllNew(buf) == \A k \in DOMAIN buf : buf[k] = "new"

\* C29: whatever the pooled buffers held (what earlier pages left, or zeros),
\* no step reads an element of a pooled buffer before the call wrote it; the
\* source is all written when the conversion to grayscale is over, the
\* scratch buffer when scaleX is over, the destination when scaleY is over;
\* and every pixel of the page sent depends on the page only.
C29_WrittenBeforeRead ==
    call.op = "convert" =>
        /\ ~call.early
        /\ call.pc \in {"fit", "scale", "scaleX", "scaleY"} => AllNew(call.src)
        /\ call.pc = "scaleY" => AllNew(call.tmp)
        /\ call.pc \in {"contrast", "gamma", "send"} =>
             /\ AllNew(call.dst)
             /\ AllNew(call.put[1]) /\ AllNew(call.put[2])
        /\ call.pc = "sent" => AllNew(call.out) /\ Len(call.out) = call.dw * call.dh

\* An RGBA page of 2 by 2 was scaled to 1 by 1 and sent, on three buffers
\* that all came back from the pools with what earlier pages left.
C29_Witness ==
    /\ call.op = "convert" /\ call.pc = "sent"
    /\ call.kind = "RGBA" /\ call.w = 2 /\ call.h = 2 /\ call.dw = 1 /\ call.dh = 1
    /\ call.got = <<"old", "old", "old">>
    /\ Len(call.put[1]) = 2 /\ Len(call.put[2]) = 4
    /\ call.out = <<"new">>

====
